---- MODULE Spec2Model ----
(***************************************************************************)
(* Model of the DuckDB CLI driver for SQLTools (src/src/ls/driver.ts):     *)
(* the statement splitter, the executable resolver, the connection handle, *)
(* the query pipeline and the completion cache.                            *)
(*                                                                         *)
(* Strings that the code inspects character by character are sequences of  *)
(* one-character strings.                                                  *)
(***************************************************************************)
EXTENDS Integers, Sequences, FiniteSets, TLC

(***************************************************************************)
(* Bounds                                                                  *)
(***************************************************************************)
\* longest script the splitter specification enumerates
MaxLen == 4

\* characters the splitter distinguishes, one ordinary letter and two kinds
\* of white space
Alphabet == {"'", "\"", ";", "-", "/", "*", "\n", "a", " "}

WhiteSpace == {" ", "\n"}

RECURSIVE SeqsUpTo(_, _)
SeqsUpTo(S, n) ==
  IF n = 0 THEN {<<>>}
  ELSE LET shorter == SeqsUpTo(S, n - 1)
       IN shorter \cup {Append(s, c) : s \in {t \in shorter : Len(t) = n - 1}, c \in S}

Texts == SeqsUpTo(Alphabet, MaxLen)

\* longest script of comment characters the splitter specification enumerates
MaxCommentLen == 6

\* the characters of comments, the semicolon and the newline
CommentAlphabet == {"-", "/", "*", ";", "\n"}

CommentTexts == SeqsUpTo(CommentAlphabet, MaxCommentLen)

(***************************************************************************)
(* String.prototype.trim                                                   *)
(***************************************************************************)
RECURSIVE TrimLeft(_)
TrimLeft(s) ==
  IF s = <<>> THEN <<>>
  ELSE IF Head(s) \in WhiteSpace THEN TrimLeft(Tail(s)) ELSE s

RECURSIVE TrimRight(_)
TrimRight(s) ==
  IF s = <<>> THEN <<>>
  ELSE IF s[Len(s)] \in WhiteSpace THEN TrimRight(SubSeq(s, 1, Len(s) - 1)) ELSE s

\* white space is removed at the start only
TrimLeftOnly(s) == TrimLeft(s)

trim(s) == TrimRight(TrimLeft(s))

(***************************************************************************)
(* splitSqlStatements: the scanner state and one iteration of its loop     *)
(***************************************************************************)
ScanInit ==
  [i |-> 1, current |-> <<>>, statements |-> <<>>,
   inSingleQuote |-> FALSE, inDoubleQuote |-> FALSE,
   inLineComment |-> FALSE, inBlockComment |-> FALSE]

\* sqlText[i + 1], undefined past the end
NextChar(text, i) == IF i + 1 <= Len(text) THEN text[i + 1] ELSE "undefined"

\* a doubled quote ends the region
ScanStepDoubledQuoteCloses(st, text) ==
  LET ch == text[st.i]
      next == NextChar(text, st.i)
      one == [st EXCEPT !.i = st.i + 1, !.current = Append(st.current, ch)]
      two == [st EXCEPT !.i = st.i + 2, !.current = st.current \o <<ch, next>>]
  IN IF st.inLineComment
       THEN [one EXCEPT !.inLineComment = (ch # "\n")]
     ELSE IF st.inBlockComment
       THEN IF ch = "*" /\ next = "/"
              THEN [two EXCEPT !.inBlockComment = FALSE]
              ELSE one
     ELSE IF st.inSingleQuote
       THEN IF ch = "'" /\ next = "'" THEN [two EXCEPT !.inSingleQuote = FALSE]
            ELSE [one EXCEPT !.inSingleQuote = (ch # "'")]
     ELSE IF st.inDoubleQuote
       THEN IF ch = "\"" /\ next = "\"" THEN [two EXCEPT !.inDoubleQuote = FALSE]
            ELSE [one EXCEPT !.inDoubleQuote = (ch # "\"")]
     ELSE IF ch = "-" /\ next = "-" THEN [two EXCEPT !.inLineComment = TRUE]
     ELSE IF ch = "/" /\ next = "*" THEN [two EXCEPT !.inBlockComment = TRUE]
     ELSE IF ch = "'" THEN [one EXCEPT !.inSingleQuote = TRUE]
     ELSE IF ch = "\"" THEN [one EXCEPT !.inDoubleQuote = TRUE]
     ELSE IF ch = ";"
       THEN [st EXCEPT !.i = st.i + 1, !.current = <<>>,
                       !.statements = IF trim(st.current) # <<>>
                                        THEN Append(st.statements, trim(st.current))
                                        ELSE st.statements]
     ELSE one

\* a semicolon ends a statement inside a comment too
ScanStepSplitInComment(st, text) ==
  LET ch == text[st.i]
      next == NextChar(text, st.i)
      one == [st EXCEPT !.i = st.i + 1, !.current = Append(st.current, ch)]
      two == [st EXCEPT !.i = st.i + 2, !.current = st.current \o <<ch, next>>]
  IN IF (st.inLineComment \/ st.inBlockComment) /\ ch = ";"
       THEN [st EXCEPT !.i = st.i + 1, !.current = <<>>,
                       !.statements = IF trim(st.current) # <<>>
                                        THEN Append(st.statements, trim(st.current))
                                        ELSE st.statements]
     ELSE IF st.inLineComment
       THEN [one EXCEPT !.inLineComment = (ch # "\n")]
     ELSE IF st.inBlockComment
       THEN IF ch = "*" /\ next = "/"
              THEN [two EXCEPT !.inBlockComment = FALSE]
              ELSE one
     ELSE IF st.inSingleQuote
       THEN IF ch = "'" /\ next = "'" THEN two
            ELSE [one EXCEPT !.inSingleQuote = (ch # "'")]
     ELSE IF st.inDoubleQuote
       THEN IF ch = "\"" /\ next = "\"" THEN two
            ELSE [one EXCEPT !.inDoubleQuote = (ch # "\"")]
     ELSE IF ch = "-" /\ next = "-" THEN [two EXCEPT !.inLineComment = TRUE]
     ELSE IF ch = "/" /\ next = "*" THEN [two EXCEPT !.inBlockComment = TRUE]
     ELSE IF ch = "'" THEN [one EXCEPT !.inSingleQuote = TRUE]
     ELSE IF ch = "\"" THEN [one EXCEPT !.inDoubleQuote = TRUE]
     ELSE IF ch = ";"
       THEN [st EXCEPT !.i = st.i + 1, !.current = <<>>,
                       !.statements = IF trim(st.current) # <<>>
                                        THEN Append(st.statements, trim(st.current))
                                        ELSE st.statements]
     ELSE one

\* a single quote inside a line comment opens a quoted region
ScanStepQuoteInComment(st, text) ==
  LET ch == text[st.i]
      next == NextChar(text, st.i)
      one == [st EXCEPT !.i = st.i + 1, !.current = Append(st.current, ch)]
      two == [st EXCEPT !.i = st.i + 2, !.current = st.current \o <<ch, next>>]
  IN IF st.inLineComment
       THEN [one EXCEPT !.inLineComment = (ch # "\n"), !.inSingleQuote = (ch = "'")]
     ELSE IF st.inBlockComment
       THEN IF ch = "*" /\ next = "/"
              THEN [two EXCEPT !.inBlockComment = FALSE]
              ELSE one
     ELSE IF st.inSingleQuote
       THEN IF ch = "'" /\ next = "'" THEN two
            ELSE [one EXCEPT !.inSingleQuote = (ch # "'")]
     ELSE IF st.inDoubleQuote
       THEN IF ch = "\"" /\ next = "\"" THEN two
            ELSE [one EXCEPT !.inDoubleQuote = (ch # "\"")]
     ELSE IF ch = "-" /\ next = "-" THEN [two EXCEPT !.inLineComment = TRUE]
     ELSE IF ch = "/" /\ next = "*" THEN [two EXCEPT !.inBlockComment = TRUE]
     ELSE IF ch = "'" THEN [one EXCEPT !.inSingleQuote = TRUE]
     ELSE IF ch = "\"" THEN [one EXCEPT !.inDoubleQuote = TRUE]
     ELSE IF ch = ";"
       THEN [st EXCEPT !.i = st.i + 1, !.current = <<>>,
                       !.statements = IF trim(st.current) # <<>>
                                        THEN Append(st.statements, trim(st.current))
                                        ELSE st.statements]
     ELSE one

ScanStep(st, text) ==
  LET ch == text[st.i]
      next == NextChar(text, st.i)
      one == [st EXCEPT !.i = st.i + 1, !.current = Append(st.current, ch)]
      two == [st EXCEPT !.i = st.i + 2, !.current = st.current \o <<ch, next>>]
  IN IF st.inLineComment
       THEN [one EXCEPT !.inLineComment = (ch # "\n")]
     ELSE IF st.inBlockComment
       THEN IF ch = "*" /\ next = "/"
              THEN [two EXCEPT !.inBlockComment = FALSE]
              ELSE one
     ELSE IF st.inSingleQuote
       THEN IF ch = "'" /\ next = "'" THEN two
            ELSE [one EXCEPT !.inSingleQuote = (ch # "'")]
     ELSE IF st.inDoubleQuote
       THEN IF ch = "\"" /\ next = "\"" THEN two
            ELSE [one EXCEPT !.inDoubleQuote = (ch # "\"")]
     ELSE IF ch = "-" /\ next = "-" THEN [two EXCEPT !.inLineComment = TRUE]
     ELSE IF ch = "/" /\ next = "*" THEN [two EXCEPT !.inBlockComment = TRUE]
     ELSE IF ch = "'" THEN [one EXCEPT !.inSingleQuote = TRUE]
     ELSE IF ch = "\"" THEN [one EXCEPT !.inDoubleQuote = TRUE]
     ELSE IF ch = ";"
       THEN [st EXCEPT !.i = st.i + 1, !.current = <<>>,
                       !.statements = IF trim(st.current) # <<>>
                                        THEN Append(st.statements, trim(st.current))
                                        ELSE st.statements]
     ELSE one

\* the text after the last semicolon is dropped
ScanTailDropped(st) == st.statements

\* the code after the loop: the tail becomes the last statement
ScanTail(st) ==
  IF trim(st.current) # <<>> THEN Append(st.statements, trim(st.current))
  ELSE st.statements

RECURSIVE ScanFrom(_, _)
ScanFrom(st, text) ==
  IF st.i > Len(text) THEN ScanTail(st) ELSE ScanFrom(ScanStep(st, text), text)

splitSqlStatements(text) == ScanFrom(ScanInit, text)

(***************************************************************************)
(* Text helpers for statements                                             *)
(***************************************************************************)
LowerLetters ==
  <<"a","b","c","d","e","f","g","h","i","j","k","l","m",
    "n","o","p","q","r","s","t","u","v","w","x","y","z">>

UpperLetters ==
  <<"A","B","C","D","E","F","G","H","I","J","K","L","M",
    "N","O","P","Q","R","S","T","U","V","W","X","Y","Z">>

Digits == {"0","1","2","3","4","5","6","7","8","9"}

Range(s) == {s[k] : k \in DOMAIN s}

\* String.prototype.toLowerCase on one character
toLowerCase(ch) ==
  IF \E k \in 1..26 : UpperLetters[k] = ch
    THEN LowerLetters[CHOOSE k \in 1..26 : UpperLetters[k] = ch]
    ELSE ch

\* \w of a regular expression
IsWordChar(ch) == ch \in Range(LowerLetters) \cup Range(UpperLetters) \cup Digits \cup {"_"}

ResultSetWords ==
  { <<"s","e","l","e","c","t">>, <<"w","i","t","h">>, <<"p","r","a","g","m","a">>,
    <<"s","h","o","w">>, <<"d","e","s","c","r","i","b","e">>, <<"c","a","l","l">>,
    <<"e","x","p","l","a","i","n">>, <<"s","u","m","m","a","r","i","z","e">> }

\* the word is matched as a prefix, with no word boundary after it
isResultSetQueryPrefix(query) ==
  LET t == trim(query)
  IN \E w \in ResultSetWords :
       /\ Len(t) >= Len(w)
       /\ \A k \in 1..Len(w) : toLowerCase(t[k]) = w[k]

\* /^(select|with|pragma|show|describe|call|explain|summarize)\b/i on the trimmed text
isResultSetQuery(query) ==
  LET t == trim(query)
  IN \E w \in ResultSetWords :
       /\ Len(t) >= Len(w)
       /\ \A k \in 1..Len(w) : toLowerCase(t[k]) = w[k]
       /\ (Len(t) = Len(w) \/ ~IsWordChar(t[Len(w) + 1]))

(***************************************************************************)
(* The environment of one driver instance: connection settings, the        *)
(* DUCKDB_CLI_PATH variable and the platform.  A script is a sequence      *)
(* whose elements are single characters or runs of ordinary characters     *)
(* (no quote, no semicolon, no comment opener, no white space at the ends),*)
(* which the splitter copies like single ordinary characters.              *)
(***************************************************************************)
Callers == {"c1", "c2"}

MemoryMarker == ":memory:"

\* values of the readOnly setting: a boolean or a string
ReadOnlyTrue == [type |-> "boolean", bool |-> TRUE, text |-> <<>>]

ReadOnlyFalse == [type |-> "boolean", bool |-> FALSE, text |-> <<>>]

ReadOnlyOn == [type |-> "string", bool |-> FALSE, text |-> <<"O","n"," ">>]

Credentials(database, duckdbCliPath, duckdbPath, readOnly) ==
  [database |-> database, duckdbCliPath |-> duckdbCliPath, duckdbPath |-> duckdbPath,
   readOnly |-> readOnly]

Setting(cred, env, plat) == [credentials |-> cred, envPath |-> env, platform |-> plat]

\* the installations the concurrent specifications start from
Settings ==
  { Setting(Credentials("", "./bin/duckdb", "", ReadOnlyFalse), "/env/duckdb", "linux"),
    Setting(Credentials("", "./bin/duckdb", "", ReadOnlyTrue), "", "linux"),
    Setting(Credentials("data/app.duckdb", "", "duckdb-nightly", ReadOnlyTrue), "/env/duckdb", "sunos"),
    Setting(Credentials("", "", "", ReadOnlyTrue), "/env/duckdb", "linux"),
    Setting(Credentials("data/app.duckdb", "", "", ReadOnlyFalse), "/env/duckdb", "darwin"),
    Setting(Credentials("", "", "", ReadOnlyOn), "", "sunos"),
    Setting(Credentials("data/app.duckdb", "", "", ReadOnlyFalse), "", "linux") }

\* every combination of settings, for the resolver on its own
AllSettings ==
  { Setting(Credentials(db, x[1], x[2], ro), env, plat) :
      db \in {"", "data/app.duckdb"},
      x \in {<<"", "">>, <<"./bin/duckdb", "">>, <<"", "duckdb-nightly">>},
      ro \in {ReadOnlyTrue, ReadOnlyFalse, ReadOnlyOn},
      env \in {"", "/env/duckdb"},
      plat \in {"linux", "win32", "darwin", "sunos"} }

\* scripts callers submit
UserScripts ==
  { <<" ", ";">>,
    <<"c","r","e","a","t","e"," ","t",";","i","n","s","e","r","t"," ","t",";","s","e","l","e","c","t"," ","t">> }

\* one-statement scripts whose first word is, or resembles, a word that
\* announces a result set
ClassifyScripts ==
  { <<"s","e","l","e","c","t">>,
    <<"S","e","l","e","c","t"," ","t">>,
    <<"S","E","L","E","C","T","(","1",")">>,
    <<"s","e","l","e","c","t","s">>,
    <<"s","e","l","e","c","t","_","1">>,
    <<" ","w","i","t","h"," ","t">>,
    <<"w","i","t","h","i","n">>,
    <<"P","R","A","G","M","A"," ","x">>,
    <<"s","h","o","w">>,
    <<"d","e","s","c","r","i","b","e"," ","t">>,
    <<"c","a","l","l"," ","f">>,
    <<"c","a","l","l","1">>,
    <<"e","x","p","l","a","i","n"," ","t">>,
    <<"S","u","m","m","a","r","i","z","e"," ","t">>,
    <<"c","r","e","a","t","e"," ","t">>,
    <<"i","n","s","e","r","t"," ","t">>,
    <<"u","p","d","a","t","e"," ","s","e","l","e","c","t">> }

ProbeSql == <<"S","E","L","E","C","T"," ","1">>

KeywordSql ==
  <<"S","E","L","E","C","T"," ",
    "UPPER(keyword_name) AS label, UPPER(keyword_category) AS category FROM duckdb_keywords() ORDER BY keyword_name",
    ";">>

RichFunctionSql ==
  <<"\n","S","E","L","E","C","T","\n",
    "function_name AS label, ... FROM duckdb_functions() WHERE function_name IS NOT NULL AND length(trim(function_name)) > 0 ORDER BY function_name",
    ";","\n">>

LegacyFunctionSql == <<"P","R","A","G","M","A"," ","functions",";">>

AUTO_EXECUTABLE_CANDIDATES ==
  [win32 |-> <<"duckdb.exe", "M:\\Programs\\duckdb\\duckdb.exe",
               "C:\\Program Files\\DuckDB\\duckdb.exe",
               "C:\\Program Files (x86)\\DuckDB\\duckdb.exe">>,
   darwin |-> <<"duckdb", "/opt/homebrew/bin/duckdb", "/usr/local/bin/duckdb", "/usr/bin/duckdb">>,
   linux |-> <<"duckdb", "/usr/local/bin/duckdb", "/usr/bin/duckdb", "/snap/bin/duckdb">>]

\* [...new Set(list)]: the first occurrence of each element, in order
RECURSIVE Unique(_)
Unique(s) ==
  IF s = <<>> THEN <<>>
  ELSE LET init == Unique(SubSeq(s, 1, Len(s) - 1))
       IN IF s[Len(s)] \in Range(init) THEN init ELSE Append(init, s[Len(s)])

\* names with a path separator or a drive letter, /[\\/]/ or /^[a-zA-Z]:/
PathLikeNames ==
  {"./bin/duckdb", "/workspace/bin/duckdb", "/env/duckdb", "data/app.duckdb",
   "/workspace/data/app.duckdb"}
    \cup {c \in Range(AUTO_EXECUTABLE_CANDIDATES.win32) \cup Range(AUTO_EXECUTABLE_CANDIDATES.darwin)
               \cup Range(AUTO_EXECUTABLE_CANDIDATES.linux) : c \notin {"duckdb", "duckdb.exe"}}

isPathLike(candidate) == candidate \in PathLikeNames

\* AbstractDriver.toAbsolutePath: a relative name is joined to the workspace
\* folder; the in-memory marker is compared unchanged by open and
\* createDirIfNotExists
toAbsolutePath(fsPath) ==
  CASE fsPath = "./bin/duckdb" -> "/workspace/bin/duckdb"
    [] fsPath = "data/app.duckdb" -> "/workspace/data/app.duckdb"
    [] OTHER -> fsPath

(***************************************************************************)
(* State                                                                   *)
(***************************************************************************)
VARIABLES
  sqlText, scan, splitPc, splitOut,  \* one run of splitSqlStatements
  credentials, envPath, platform,    \* this.credentials, process.env, process.platform
  connection,                        \* this.connection
  completionsCache,                  \* this.completionsCache
  call,                              \* the asynchronous call each caller has in flight
  issued,                            \* introspection queries issued so far, by kind
  firstCompleted,                    \* the mapping the first finished getStaticCompletions returned
  merge                              \* one run of addFunctionCompletions

splitVars == <<sqlText, scan, splitPc, splitOut>>

driverVars == <<credentials, envPath, platform, connection, completionsCache, call,
                issued, firstCompleted>>

vars == <<sqlText, scan, splitPc, splitOut, credentials, envPath, platform, connection,
          completionsCache, call, issued, firstCompleted, merge>>

\* this.connection = null; a handle is a promise object, ref is its identity
NoHandle == [ref |-> 0, databasePath |-> "", executablePath |-> "", readOnly |-> FALSE]

\* this.completionsCache = null; ref is the identity of the mapping object
NoMap == [ref |-> 0, entries |-> <<>>]

\* no run of addFunctionCompletions
MergeIdle ==
  [pc |-> "idle", items |-> <<>>, i |-> 0, functionMetaByLabel |-> <<>>,
   before |-> <<>>, completions |-> <<>>]

Idle ==
  [op |-> "none", pc |-> "idle", stage |-> "none",
   queries |-> <<>>, qi |-> 0, resultsAgg |-> <<>>, spawned |-> {},
   cand |-> [src |-> "none", path |-> ""], ci |-> 0, attempts |-> <<>>,
   h |-> NoHandle, err |-> <<>>, threw |-> FALSE,
   completions |-> NoMap, late |-> FALSE, warned |-> {}, args |-> <<>>]

DriverInit ==
  /\ \E s \in Settings :
       credentials = s.credentials /\ envPath = s.envPath /\ platform = s.platform
  /\ connection = NoHandle
  /\ completionsCache = NoMap
  /\ call = [p \in Callers |-> Idle]
  /\ issued = [keywords |-> 0, functions |-> 0, legacy |-> 0]
  /\ firstCompleted = NoMap
  /\ merge = MergeIdle

(***************************************************************************)
(* Executable resolver                                                     *)
(***************************************************************************)
getDatabase == toAbsolutePath(IF credentials.database # "" THEN credentials.database ELSE MemoryMarker)

getConfiguredExecutablePath ==
  LET configuredPath == IF credentials.duckdbCliPath # "" THEN credentials.duckdbCliPath
                        ELSE credentials.duckdbPath
  IN IF configuredPath = "" THEN ""
     ELSE IF isPathLike(configuredPath) THEN toAbsolutePath(configuredPath)
     ELSE configuredPath

getEnvironmentExecutablePath ==
  IF envPath = "" THEN ""
  ELSE IF isPathLike(envPath) THEN toAbsolutePath(envPath)
  ELSE envPath

getAutoExecutableCandidates ==
  LET platformCandidates == IF platform \in DOMAIN AUTO_EXECUTABLE_CANDIDATES
                              THEN AUTO_EXECUTABLE_CANDIDATES[platform]
                              ELSE <<"duckdb">>
  IN Unique(Append(platformCandidates, IF platform = "win32" THEN "duckdb.exe" ELSE "duckdb"))

isReadOnlyEnabled ==
  IF credentials.readOnly.type = "boolean" THEN credentials.readOnly.bool
  ELSE IF credentials.readOnly.type = "string"
    THEN LET t == trim(credentials.readOnly.text)
         IN [k \in DOMAIN t |-> toLowerCase(t[k])]
              \in {<<"1">>, <<"t","r","u","e">>, <<"y","e","s">>,
                   <<"e","n","a","b","l","e","d">>, <<"o","n">>}
  ELSE FALSE

\* the ways validateExecutablePath can end for one candidate: "ok", or the
\* message of the Error it throws
ValidationOutcomes(executablePath) ==
  {<<"ok">>}
    \cup (IF isPathLike(executablePath)
            THEN {<<"DuckDB executable not found at", executablePath>>}
            ELSE {})
    \cup {<<"DuckDB CLI validation failed.", "stderr">>}

\* the first candidate resolveExecutablePath validates
FirstCandidate ==
  IF getConfiguredExecutablePath # ""
    THEN [src |-> "configured", path |-> getConfiguredExecutablePath]
  ELSE IF getEnvironmentExecutablePath # ""
    THEN [src |-> "environment", path |-> getEnvironmentExecutablePath]
  ELSE [src |-> "auto", path |-> getAutoExecutableCandidates[1]]

\* slice(0, 5).join(' | ') of the attempts
RECURSIVE JoinAttempts(_)
JoinAttempts(as) ==
  IF as = <<>> THEN <<>>
  ELSE IF Len(as) = 1 THEN as[1]
  ELSE as[1] \o <<"|">> \o JoinAttempts(Tail(as))

NotFoundMessage(attempts) ==
  <<"DuckDB CLI executable was not found.",
    "Set \"duckdbCliPath\" in the connection settings or add \"duckdb\" to your PATH.">>
    \o (IF attempts # <<>>
          THEN <<"Attempted:">> \o JoinAttempts(SubSeq(attempts, 1, IF Len(attempts) < 5 THEN Len(attempts) ELSE 5))
          ELSE <<>>)

(***************************************************************************)
(* Completion entries                                                      *)
(***************************************************************************)
toUpperCase(ch) ==
  IF \E k \in 1..26 : LowerLetters[k] = ch
    THEN UpperLetters[CHOOSE k \in 1..26 : LowerLetters[k] = ch]
    ELSE ch

\* category names as the engine reports them, and their upper-case forms
toUpperCaseWord(w) ==
  CASE w = "scalar" -> "SCALAR"
    [] w = "macro" -> "MACRO"
    [] w = "reserved" -> "RESERVED"
    [] OTHER -> w

PRIORITIZED_SQL_WORDS ==
  { <<"S","E","L","E","C","T">>, <<"C","R","E","A","T","E">>,
    <<"U","P","D","A","T","E">>, <<"D","E","L","E","T","E">> }

\* the normalized label, or <<>> for null
normalizeCompletionLabel(value) ==
  LET t == trim(value)
      label == [k \in DOMAIN t |-> toUpperCase(t[k])]
  IN IF label = <<>> THEN <<>>
     ELSE IF /\ label[1] \in Range(UpperLetters) \cup {"_"}
             /\ \A k \in 2..Len(label) : label[k] \in Range(UpperLetters) \cup Digits \cup {"_"}
       THEN label
     ELSE <<>>

Take(s, n) == SubSeq(s, 1, IF Len(s) < n THEN Len(s) ELSE n)

AddUnique(s, x) == IF x \in Range(s) THEN s ELSE Append(s, x)

RECURSIVE AddAllUnique(_, _)
AddAllUnique(s, xs) ==
  IF xs = <<>> THEN s ELSE AddAllUnique(AddUnique(s, Head(xs)), Tail(xs))

\* one fenced yaml block of a documentation value, with what follows it
DocBlock(word, types, returns, tags, signatures, description) ==
  [WORD |-> word, TYPE |-> types, RETURNS |-> returns, TAGS |-> tags,
   signatures |-> signatures, description |-> description]

KeywordEntry(label, category) ==
  [label |-> label, detail |-> <<label>>, filterText |-> label,
   sortText |-> <<IF label \in PRIORITIZED_SQL_WORDS THEN "2:" ELSE "4:", label>>,
   documentation |-> <<DocBlock(label, <<category>>, <<>>, <<>>, <<>>, "")>>]

\* the built-in table of ./keywords, used when the keyword query fails
keywordsCompletion ==
  LET words == {<<"S","E","L","E","C","T">>, <<"F","R","O","M">>}
  IN [w \in words |-> KeywordEntry(w, "RESERVED")]

\* completions[label] = entry
PutEntry(completions, label, entry) ==
  [l \in DOMAIN completions \cup {label} |-> IF l = label THEN entry ELSE completions[l]]

\* the body of the forEach of addKeywordCompletions for one row
AddKeyword(completions, label, category) ==
  IF label = <<>> THEN completions
  ELSE PutEntry(completions, label, KeywordEntry(label, toUpperCaseWord(category)))

RECURSIVE addKeywordCompletions(_, _)
addKeywordCompletions(items, completions) ==
  IF items = <<>> THEN completions
  ELSE addKeywordCompletions(
         Tail(items),
         AddKeyword(completions, normalizeCompletionLabel(Head(items).label),
                    IF Head(items).category # "" THEN Head(items).category ELSE "KEYWORD"))

\* Object.assign(completions, keywordsCompletion)
AssignBuiltin(completions) ==
  [l \in DOMAIN completions \cup DOMAIN keywordsCompletion |->
     IF l \in DOMAIN keywordsCompletion THEN keywordsCompletion[l] ELSE completions[l]]

\* parameterNames[index] || ''
ItemAt(s, k) == IF k <= Len(s) THEN s[k] ELSE ""

\* one rendered parameter: "name: type", or the name, or the type
SignatureParam(parameterName, parameterType) ==
  IF parameterName # "" /\ parameterType # "" /\ parameterName # parameterType
    THEN <<parameterName, ":", parameterType>>
  ELSE IF parameterName # "" THEN <<parameterName>>
  ELSE <<parameterType>>

NonEmptyParam(x) == x # <<"">>

\* the rendered parameters of one function row
SignatureParams(names, types) ==
  SelectSeq([k \in 1..(IF Len(names) > Len(types) THEN Len(names) ELSE Len(types)) |->
               SignatureParam(ItemAt(names, k), ItemAt(types, k))],
            NonEmptyParam)

NoMeta == [categories |-> <<>>, returnTypes |-> <<>>, signatures |-> <<>>, tags |-> <<>>,
           description |-> ""]

\* one row folded into the meta of its label
MergedMeta(currentMeta, item, label, category, signatureParams) ==
  [categories |-> AddUnique(currentMeta.categories, category),
   returnTypes |-> IF item.returnType # ""
                     THEN AddUnique(currentMeta.returnTypes, item.returnType)
                     ELSE currentMeta.returnTypes,
   signatures |-> IF signatureParams # <<>>
                    THEN AddUnique(currentMeta.signatures, <<label, signatureParams>>)
                    ELSE currentMeta.signatures,
   tags |-> AddAllUnique(currentMeta.tags, item.tags),
   description |-> IF currentMeta.description = "" /\ item.description # ""
                     THEN item.description ELSE currentMeta.description]

\* the body of the first forEach of addFunctionCompletions for one row
AddFunctionRow(metas, item, label) ==
  IF label = <<>> THEN metas
  ELSE PutEntry(metas, label,
         MergedMeta(IF label \in DOMAIN metas THEN metas[label] ELSE NoMeta,
                    item, label,
                    toUpperCaseWord(IF item.category # "" THEN item.category
                                    ELSE IF item.functionType # "" THEN item.functionType
                                    ELSE "FUNCTION"),
                    SignatureParams(item.parameters, item.parameterTypes)))

\* the first forEach of addFunctionCompletions: rows grouped by normalized label
RECURSIVE FunctionMetaByLabel(_)
FunctionMetaByLabel(items) ==
  IF items = <<>> THEN [l \in {} |-> NoMeta]
  ELSE AddFunctionRow(FunctionMetaByLabel(SubSeq(items, 1, Len(items) - 1)),
                      items[Len(items)],
                      normalizeCompletionLabel(IF items[Len(items)].label # <<>>
                                                 THEN items[Len(items)].label
                                                 ELSE items[Len(items)].name))

\* the documentation value of one function group
FunctionDoc(label, meta) ==
  DocBlock(label, meta.categories, Take(meta.returnTypes, 3), Take(meta.tags, 6),
           Take(meta.signatures, 8), meta.description)

\* the entry of a label no keyword has
FunctionEntry(label, signatures, docValue) ==
  [label |-> label,
   detail |-> IF signatures # <<>> THEN signatures[1] ELSE <<label, "(...)">>,
   filterText |-> label,
   sortText |-> <<"3:", label>>,
   documentation |-> <<docValue>>]

\* a function group replaces the entry its label already has
MergeFunctionMetasOverwrite(metas, completions) ==
  [l \in DOMAIN completions \cup DOMAIN metas |->
     IF l \notin DOMAIN metas THEN completions[l]
     ELSE FunctionEntry(l, Take(metas[l].signatures, 8), FunctionDoc(l, metas[l]))]

\* the second forEach of addFunctionCompletions
MergeFunctionMetas(metas, completions) ==
  [l \in DOMAIN completions \cup DOMAIN metas |->
     IF l \notin DOMAIN metas THEN completions[l]
     ELSE IF l \in DOMAIN completions
       THEN [completions[l] EXCEPT !.documentation = Append(@, FunctionDoc(l, metas[l]))]
     ELSE FunctionEntry(l, Take(metas[l].signatures, 8), FunctionDoc(l, metas[l]))]

addFunctionCompletions(items, completions) ==
  MergeFunctionMetas(FunctionMetaByLabel(items), completions)

\* rows.map(...) of loadDynamicFunctions for the rows of PRAGMA functions
LegacyRows(rows) ==
  [k \in DOMAIN rows |->
     [label |-> rows[k].name, name |-> <<>>,
      category |-> toUpperCaseWord(IF rows[k].type # "" THEN rows[k].type ELSE "FUNCTION"),
      functionType |-> rows[k].type, description |-> "",
      returnType |-> rows[k].return_type, parameters |-> rows[k].parameters,
      parameterTypes |-> <<>>, tags |-> <<>>]]

(***************************************************************************)
(* One statement subprocess and runSingleQuery                             *)
(***************************************************************************)
UserRows == << [x |-> "1"] >>

\* the row the engine prints for an INSERT
CountRows == << [Count |-> "1"] >>

InsertStatement == <<"i","n","s","e","r","t"," ","t">>

KeywordRows ==
  << [label |-> <<"L","E","F","T">>, category |-> "RESERVED"],
     [label |-> <<"S","E","L","E","C","T">>, category |-> "RESERVED"] >>

\* rows of duckdb_functions(), parameters and tags already as lists
FunctionRows ==
  << [label |-> <<"a","b","s">>, name |-> <<>>, category |-> "SCALAR", functionType |-> "scalar",
      description |-> "Absolute value", returnType |-> "BIGINT",
      parameters |-> <<"x">>, parameterTypes |-> <<"BIGINT">>, tags |-> <<>>],
     [label |-> <<"a","b","s">>, name |-> <<>>, category |-> "SCALAR", functionType |-> "scalar",
      description |-> "", returnType |-> "DOUBLE",
      parameters |-> <<"x">>, parameterTypes |-> <<"DOUBLE">>, tags |-> <<>>],
     [label |-> <<"l","e","f","t">>, name |-> <<>>, category |-> "SCALAR", functionType |-> "scalar",
      description |-> "Leftmost characters", returnType |-> "VARCHAR",
      parameters |-> <<"string", "count">>, parameterTypes |-> <<"VARCHAR", "BIGINT">>,
      tags |-> <<"category=string">>] >>

\* rows of PRAGMA functions
PragmaRows ==
  << [name |-> <<"a","b","s">>, type |-> "scalar", return_type |-> "BIGINT",
      parameters |-> <<"BIGINT">>] >>

\* Object.keys of a row
ObjectKeys(row) ==
  CASE DOMAIN row = {"x"} -> <<"x">>
    [] DOMAIN row = {"Count"} -> <<"Count">>
    [] DOMAIN row = {"label", "category"} -> <<"label", "category">>
    [] DOMAIN row = {"name", "type", "return_type", "parameters"} ->
         <<"name", "type", "parameters", "return_type">>
    [] OTHER -> <<"label", "category", "functionType", "description", "returnType",
                  "parameters", "parameterTypes", "tags">>

\* the statements of the fixed scripts the driver itself submits
ProbeStatements == splitSqlStatements(ProbeSql)

KeywordStatements == splitSqlStatements(KeywordSql)

RichFunctionStatements == splitSqlStatements(RichFunctionSql)

LegacyFunctionStatements == splitSqlStatements(LegacyFunctionSql)

\* the row lists the engine can print for a statement
StatementRows(q) ==
  IF q = KeywordStatements[1] THEN {<<>>, KeywordRows}
  ELSE IF q = RichFunctionStatements[1] THEN {FunctionRows}
  ELSE IF q = LegacyFunctionStatements[1] THEN {PragmaRows}
  ELSE IF q = ProbeStatements[1] THEN {UserRows}
  ELSE IF isResultSetQuery(q) THEN {<<>>, UserRows}
  ELSE IF q = InsertStatement THEN {CountRows}
  ELSE {<<>>}

\* how execFileAsync can end for a statement
SubprocessOutcomes(q) ==
  { [status |-> "spawn_error", stderr |-> "", stdout |-> [kind |-> "empty", rows |-> <<>>]],
    [status |-> "exit_nonzero", stderr |-> "engine error", stdout |-> [kind |-> "empty", rows |-> <<>>]],
    [status |-> "exit_zero", stderr |-> "", stdout |-> [kind |-> "empty", rows |-> <<>>]],
    [status |-> "exit_zero", stderr |-> "", stdout |-> [kind |-> "invalid", rows |-> <<>>]] }
    \cup { [status |-> "exit_zero", stderr |-> "", stdout |-> [kind |-> "array", rows |-> rows]] :
             rows \in StatementRows(q) }
    \cup { [status |-> "exit_zero", stderr |-> "", stdout |-> [kind |-> "object", rows |-> rows]] :
             rows \in {r \in StatementRows(q) : Len(r) = 1} }

\* what runSingleQuery makes of the subprocess: rows, or the message of the
\* Error it throws
runSingleQueryResult(o) ==
  IF o.status = "spawn_error" THEN [ok |-> FALSE, rows |-> <<>>, message |-> <<"spawn ENOENT">>]
  ELSE IF o.status = "exit_nonzero"
    THEN [ok |-> FALSE, rows |-> <<>>,
          message |-> IF o.stderr # "" THEN <<o.stderr>> ELSE <<"Command failed">>]
  ELSE IF o.stdout.kind = "empty" THEN [ok |-> TRUE, rows |-> <<>>, message |-> <<>>]
  ELSE IF o.stdout.kind = "invalid"
    THEN [ok |-> FALSE, rows |-> <<>>, message |-> <<"Unexpected token in JSON">>]
  ELSE [ok |-> TRUE, rows |-> o.stdout.rows, message |-> <<>>]

(***************************************************************************)
(* query: the result of one statement and the loop over the statements     *)
(***************************************************************************)
SuccessResult(q, results) ==
  [query |-> q, error |-> FALSE, results |-> results,
   cols |-> IF results # <<>> THEN ObjectKeys(results[1]) ELSE <<>>,
   messages |-> IF results = <<>> /\ ~isResultSetQuery(q)
                  THEN << <<"Statement executed successfully.">> >> ELSE <<>>]

\* the error result carries its message twice
ErrorResultTwoMessages(q, message) ==
  [query |-> q, error |-> TRUE, results |-> <<>>, cols |-> <<>>, messages |-> <<message, message>>]

ErrorResult(q, message) ==
  [query |-> q, error |-> TRUE, results |-> <<>>, cols |-> <<>>, messages |-> <<message>>]

\* the argument list with the read-only flag whatever the handle says
SpawnArgsAlwaysReadOnly(handle, query) ==
  <<handle.databasePath, "-readonly", "-json", "-c", query>>

\* const args = [databasePath]; if (readOnly) args.push('-readonly');
\* args.push('-json', '-c', query)
SpawnArgs(handle, query) ==
  <<handle.databasePath>> \o (IF handle.readOnly THEN <<"-readonly">> ELSE <<>>)
    \o <<"-json", "-c", query>>

\* runSingleQuery spawns the subprocesses of the current statement and of
\* all the statements after it at once
AfterOpenSpawnAll(c, handle) ==
  LET r == [c EXCEPT !.h = handle, !.cand = Idle.cand, !.ci = 0, !.attempts = <<>>]
  IN IF c.op = "open" THEN [r EXCEPT !.pc = "done"]
     ELSE IF c.op = "test" /\ c.stage = "open" THEN [r EXCEPT !.pc = "open_return"]
     ELSE [r EXCEPT !.pc = "exec", !.spawned = @ \cup (c.qi..Len(c.queries)),
                    !.args = SpawnArgs(handle, c.queries[c.qi])]

\* the caller of open resumes with the handle: open and testConnection take
\* it, runSingleQuery spawns the subprocess of the current statement
AfterOpen(c, handle) ==
  LET r == [c EXCEPT !.h = handle, !.cand = Idle.cand, !.ci = 0, !.attempts = <<>>]
  IN IF c.op = "open" THEN [r EXCEPT !.pc = "done"]
     ELSE IF c.op = "test" /\ c.stage = "open" THEN [r EXCEPT !.pc = "open_return"]
     ELSE [r EXCEPT !.pc = "exec", !.spawned = @ \cup {c.qi},
                    !.args = SpawnArgs(handle, c.queries[c.qi])]

\* open(): the stored handle, or a resolution of its own that starts with
\* the validation of the first candidate
OpenEntry(c) ==
  IF connection # NoHandle
    THEN AfterOpen(c, connection)
    ELSE [c EXCEPT !.pc = "validating", !.h = NoHandle, !.attempts = <<>>,
                   !.cand = FirstCandidate,
                   !.ci = IF FirstCandidate.src = "auto" THEN 1 ELSE 0]

\* the loop of query starts on its first statement
BeginStatements(c, qs) ==
  OpenEntry([c EXCEPT !.queries = qs, !.qi = 1, !.resultsAgg = <<>>, !.spawned = {}])

\* this.log.warn in the catch block after the query of a stage
Warn(c, stage) == [c EXCEPT !.warned = @ \cup {stage}]

\* the mapping is returned as it is
KeepEmpty(entries) == entries

\* if (!Object.keys(completions).length) Object.assign(completions, keywordsCompletion)
FillIfEmpty(entries) == IF DOMAIN entries = {} THEN AssignBuiltin(entries) ELSE entries

\* getStaticCompletions after its keyword query returned
AfterKeywords(c, res) ==
  [c EXCEPT !.stage = "functions",
            !.warned = IF res.error THEN @ \cup {"keywords"} ELSE @,
            !.completions.entries =
               FillIfEmpty(IF res.error THEN AssignBuiltin(c.completions.entries)
                           ELSE addKeywordCompletions(res.results, c.completions.entries))]

\* getStaticCompletions after loadDynamicFunctions returned functionItems
FinishCompletions(c, functionItems) ==
  [c EXCEPT !.pc = "done", !.stage = "cached",
            !.completions.entries =
               FillIfEmpty(addFunctionCompletions(functionItems, c.completions.entries))]

\* getStaticCompletions and loadDynamicFunctions after one of their queries
\* has returned res: queryResults throws when res is an error result
CompletionsStep(c, res) ==
  IF c.stage = "keywords" \/ (c.stage = "functions" /\ res.error)
    THEN BeginStatements(
           IF c.stage = "keywords" THEN AfterKeywords(c, res)
           ELSE Warn([c EXCEPT !.stage = "legacy"], "functions"),
           IF c.stage = "keywords" THEN RichFunctionStatements ELSE LegacyFunctionStatements)
    ELSE FinishCompletions(IF res.error THEN Warn(c, "legacy") ELSE c,
                           IF res.error THEN <<>>
                           ELSE IF c.stage = "functions" THEN res.results
                           ELSE LegacyRows(res.results))

\* testConnection rejects when the result of its probe is an error result
ReturnToProbeChecked(c) ==
  IF c.op = "completions" THEN CompletionsStep(c, c.resultsAgg[1])
  ELSE IF c.op = "test" /\ c.resultsAgg[1].error
    THEN [c EXCEPT !.pc = "done", !.threw = TRUE, !.err = c.resultsAgg[1].messages[1]]
  ELSE [c EXCEPT !.pc = "done"]

\* query returns resultsAgg to whoever called it; the locals of runSingleQuery
\* are gone
ReturnTo(c) ==
  IF c.op = "completions" THEN CompletionsStep(c, c.resultsAgg[1]) ELSE [c EXCEPT !.pc = "done"]

QueryReturn(c) ==
  ReturnTo([c EXCEPT !.h = NoHandle, !.cand = Idle.cand, !.ci = 0, !.attempts = <<>>,
                     !.args = <<>>])

\* the loop of query after the result of the current statement is pushed
LoopWithoutBreak(c) ==
  IF c.qi < Len(c.queries) THEN OpenEntry([c EXCEPT !.qi = c.qi + 1]) ELSE QueryReturn(c)

LoopOrBreak(c) ==
  IF c.qi < Len(c.queries) /\ ~c.resultsAgg[Len(c.resultsAgg)].error
    THEN OpenEntry([c EXCEPT !.qi = c.qi + 1])
    ELSE QueryReturn(c)

\* the result query pushes for the current statement: the try block after
\* runSingleQuery returned rows, the catch block after it threw
StatementDone(c, r) ==
  LoopOrBreak([c EXCEPT !.resultsAgg =
                 Append(@, IF r.ok THEN SuccessResult(c.queries[c.qi], r.rows)
                           ELSE ErrorResult(c.queries[c.qi], r.message))])

\* open rejects, and the rejection passes through query to its caller
OpenThrowUncaught(c, message) ==
  [c EXCEPT !.pc = "done", !.threw = TRUE, !.err = message]

\* open rejects: the caller of open sees it, runSingleQuery passes it to the
\* catch block of query
OpenThrow(c, message) ==
  IF c.op = "open" \/ (c.op = "test" /\ c.stage = "open")
    THEN [c EXCEPT !.pc = "done", !.threw = TRUE, !.err = message]
    ELSE StatementDone(c, [ok |-> FALSE, rows |-> <<>>, message |-> message])

(***************************************************************************)
(* resolveExecutablePath after a candidate failed validation               *)
(***************************************************************************)
\* the loop jumps to the last candidate of the list
NextAutoLast(c, attempts, candidates) ==
  [c EXCEPT !.attempts = attempts, !.ci = Len(candidates),
            !.cand = [src |-> "auto", path |-> candidates[Len(candidates)]]]

NextAuto(c, attempts, candidates) ==
  [c EXCEPT !.attempts = attempts, !.ci = c.ci + 1,
            !.cand = [src |-> "auto", path |-> candidates[c.ci + 1]]]

\* a failed configured path falls through to the later steps
AfterValidationFailureFallThrough(c, message) ==
  IF c.cand.src = "configured"
    THEN [c EXCEPT !.ci = IF getEnvironmentExecutablePath # "" THEN 0 ELSE 1,
                   !.cand = IF getEnvironmentExecutablePath # ""
                              THEN [src |-> "environment", path |-> getEnvironmentExecutablePath]
                              ELSE [src |-> "auto", path |-> getAutoExecutableCandidates[1]]]
  ELSE IF c.cand.src = "auto" /\ c.ci < Len(getAutoExecutableCandidates)
    THEN NextAuto(c, Append(c.attempts, <<c.cand.path, "->">> \o message), getAutoExecutableCandidates)
  ELSE OpenThrow(
         c,
         IF c.cand.src = "environment"
           THEN <<"Invalid environment variable DUCKDB_CLI_PATH:", c.cand.path>> \o message
         ELSE NotFoundMessage(Append(c.attempts, <<c.cand.path, "->">> \o message)))

\* a failed environment override falls through to auto-discovery
AfterValidationFailureEnvFallThrough(c, message) ==
  IF c.cand.src = "environment"
    THEN [c EXCEPT !.ci = 1, !.cand = [src |-> "auto", path |-> getAutoExecutableCandidates[1]]]
  ELSE IF c.cand.src = "auto" /\ c.ci < Len(getAutoExecutableCandidates)
    THEN NextAuto(c, Append(c.attempts, <<c.cand.path, "->">> \o message), getAutoExecutableCandidates)
  ELSE OpenThrow(
         c,
         IF c.cand.src = "configured"
           THEN <<"Invalid \"duckdbCliPath\" / \"duckdbPath\":", c.cand.path>> \o message
         ELSE NotFoundMessage(Append(c.attempts, <<c.cand.path, "->">> \o message)))

\* the catch blocks of resolveExecutablePath: a configured or environment
\* path that fails ends the resolution, an auto candidate that fails is
\* recorded and the next one is validated
AfterValidationFailure(c, message) ==
  IF c.cand.src = "auto" /\ c.ci < Len(getAutoExecutableCandidates)
    THEN NextAuto(c, Append(c.attempts, <<c.cand.path, "->">> \o message), getAutoExecutableCandidates)
  ELSE OpenThrow(
         c,
         IF c.cand.src = "configured"
           THEN <<"Invalid \"duckdbCliPath\" / \"duckdbPath\":", c.cand.path>> \o message
         ELSE IF c.cand.src = "environment"
           THEN <<"Invalid environment variable DUCKDB_CLI_PATH:", c.cand.path>> \o message
         ELSE NotFoundMessage(Append(c.attempts, <<c.cand.path, "->">> \o message)))

(***************************************************************************)
(* Actions: one per step of an asynchronous call between two awaits        *)
(***************************************************************************)
\* the identity of a newly created promise or mapping object
FreshHandleRef ==
  CHOOSE n \in 1..(Cardinality(Callers) + 1) :
    /\ n # connection.ref
    /\ \A q \in Callers : n # call[q].h.ref
    /\ \A m \in 1..(n - 1) : m = connection.ref \/ \E q \in Callers : m = call[q].h.ref

FreshMapRef ==
  CHOOSE n \in 1..(Cardinality(Callers) + 2) :
    LET used == {completionsCache.ref, firstCompleted.ref} \cup {call[q].completions.ref : q \in Callers}
    IN n \notin used /\ \A m \in 1..(n - 1) : m \in used

\* the caller's record changes; a finished getStaticCompletions stores its
\* mapping; a query of getStaticCompletions that starts is counted
Commit(p, c) ==
  /\ call' = [call EXCEPT ![p] = c]
  /\ IF c.op = "completions" /\ c.pc = "done" /\ c.stage = "cached"
       THEN /\ completionsCache' = c.completions
            /\ firstCompleted' = IF firstCompleted = NoMap THEN c.completions ELSE firstCompleted
       ELSE UNCHANGED <<completionsCache, firstCompleted>>
  /\ issued' = IF c.op = "completions" /\ c.stage # call[p].stage
                    /\ c.stage \in {"keywords", "functions", "legacy"}
                 THEN [issued EXCEPT ![c.stage] = @ + 1]
                 ELSE issued

\* a call starts when the caller's previous call has returned
Ready(p) == call[p].pc \in {"idle", "done"}

CallOpen(p) ==
  /\ Ready(p)
  /\ Commit(p, OpenEntry([Idle EXCEPT !.op = "open"]))
  /\ UNCHANGED <<connection, credentials, envPath, platform, splitVars, merge>>

CallClose(p) ==
  /\ Ready(p)
  /\ Commit(p, [Idle EXCEPT !.op = "close",
                            !.pc = IF connection = NoHandle THEN "done" ELSE "close_await"])
  /\ UNCHANGED <<connection, credentials, envPath, platform, splitVars, merge>>

\* close also forgets the completions
CloseFinishClearsCache(p) ==
  /\ call[p].pc = "close_await"
  /\ connection' = NoHandle
  /\ call' = [call EXCEPT ![p] = [call[p] EXCEPT !.pc = "done"]]
  /\ completionsCache' = NoMap
  /\ UNCHANGED <<firstCompleted, issued, credentials, envPath, platform, splitVars, merge>>

\* close returns and the handle stays
CloseFinishKeepsHandle(p) ==
  /\ call[p].pc = "close_await"
  /\ connection' = connection
  /\ Commit(p, [call[p] EXCEPT !.pc = "done"])
  /\ UNCHANGED <<credentials, envPath, platform, splitVars, merge>>

\* close after its await
CloseFinish(p) ==
  /\ call[p].pc = "close_await"
  /\ connection' = NoHandle
  /\ Commit(p, [call[p] EXCEPT !.pc = "done"])
  /\ UNCHANGED <<credentials, envPath, platform, splitVars, merge>>

\* query(script) for one of scripts
CallQueryOf(p, scripts) ==
  /\ Ready(p)
  /\ \E script \in scripts :
       LET queries == splitSqlStatements(script)
       IN Commit(p, IF queries = <<>>
                      THEN [Idle EXCEPT !.op = "query", !.pc = "done"]
                      ELSE BeginStatements([Idle EXCEPT !.op = "query"], queries))
  /\ UNCHANGED <<connection, credentials, envPath, platform, splitVars, merge>>

CallQuery(p) == CallQueryOf(p, UserScripts)

CallTestConnection(p) ==
  /\ Ready(p)
  /\ Commit(p, OpenEntry([Idle EXCEPT !.op = "test", !.stage = "open"]))
  /\ UNCHANGED <<connection, credentials, envPath, platform, splitVars, merge>>

\* testConnection after its await of open: query('SELECT 1')
OpenReturn(p) ==
  /\ call[p].pc = "open_return"
  /\ Commit(p, BeginStatements([call[p] EXCEPT !.stage = "query"], ProbeStatements))
  /\ UNCHANGED <<connection, credentials, envPath, platform, splitVars, merge>>

CallGetStaticCompletions(p) ==
  /\ Ready(p)
  /\ Commit(p,
       IF completionsCache # NoMap
         THEN [Idle EXCEPT !.op = "completions", !.pc = "done", !.stage = "hit",
                           !.completions = completionsCache,
                           !.late = (firstCompleted # NoMap)]
         ELSE BeginStatements(
                [Idle EXCEPT !.op = "completions", !.stage = "keywords",
                             !.completions = [ref |-> FreshMapRef, entries |-> <<>>],
                             !.late = (firstCompleted # NoMap)],
                KeywordStatements))
  /\ UNCHANGED <<connection, credentials, envPath, platform, splitVars, merge>>

\* how the rest of open can end once the executable is resolved: "ok", or the
\* message of the Error thrown by the read-only check or createDirIfNotExists
OpenFinishOutcomes(databasePath, readOnly) ==
  IF readOnly /\ databasePath = MemoryMarker
    THEN {<<"Read-only mode is not supported with \":memory:\" database.">>}
  ELSE IF databasePath = MemoryMarker THEN {<<"ok">>}
  ELSE IF readOnly
    THEN {<<"ok">>, <<"Database file not found for read-only mode:", databasePath>>}
  ELSE {<<"ok">>, <<"EACCES: permission denied, mkdir">>}

NewHandle(executablePath) ==
  [ref |-> FreshHandleRef, databasePath |-> getDatabase,
   executablePath |-> executablePath, readOnly |-> isReadOnlyEnabled]

\* open after resolveExecutablePath returned executablePath: the read-only
\* check, createDirIfNotExists, and the new handle stored
\* the handle is stored before the read-only check and createDirIfNotExists
OpenFinishStoresFirst(p, executablePath) ==
  \E outcome \in OpenFinishOutcomes(getDatabase, isReadOnlyEnabled) :
    /\ connection' = NewHandle(executablePath)
    /\ Commit(p, IF outcome = <<"ok">>
                   THEN AfterOpen(call[p], NewHandle(executablePath))
                   ELSE OpenThrow(call[p], outcome))

OpenFinish(p, executablePath) ==
  \E outcome \in OpenFinishOutcomes(getDatabase, isReadOnlyEnabled) :
    /\ connection' = IF outcome = <<"ok">> THEN NewHandle(executablePath) ELSE connection
    /\ Commit(p, IF outcome = <<"ok">>
                   THEN AfterOpen(call[p], NewHandle(executablePath))
                   ELSE OpenThrow(call[p], outcome))

\* validateExecutablePath ends for the current candidate
ValidateDone(p) ==
  /\ call[p].pc = "validating"
  /\ \E outcome \in ValidationOutcomes(call[p].cand.path) :
       \/ /\ outcome = <<"ok">>
          /\ OpenFinish(p, call[p].cand.path)
       \/ /\ outcome # <<"ok">>
          /\ Commit(p, AfterValidationFailure(call[p], outcome))
          /\ UNCHANGED connection
  /\ UNCHANGED <<credentials, envPath, platform, splitVars, merge>>

\* the subprocess of the current statement ends
ExecDone(p) ==
  /\ call[p].pc = "exec"
  /\ \E o \in SubprocessOutcomes(call[p].queries[call[p].qi]) :
       Commit(p, StatementDone(call[p], runSingleQueryResult(o)))
  /\ UNCHANGED <<connection, credentials, envPath, platform, splitVars, merge>>

Init ==
  /\ DriverInit
  /\ sqlText = <<>>
  /\ scan = ScanInit
  /\ splitPc = "returned"
  /\ splitOut = <<>>

\* open, close, query and testConnection called concurrently
Next ==
  \E p \in Callers :
    \/ CallOpen(p)
    \/ CallClose(p)
    \/ CloseFinish(p)
    \/ CallQuery(p)
    \/ CallTestConnection(p)
    \/ OpenReturn(p)
    \/ ValidateDone(p)
    \/ ExecDone(p)

Spec == Init /\ [][Next]_vars

\* query called by one caller with one-statement scripts, on an installation
\* whose executable is named by the environment and whose database can open
CallClassifyQuery(p) == CallQueryOf(p, ClassifyScripts)

ClassifyCallers == {"c1"}

ClassifyInit ==
  /\ Init
  /\ getConfiguredExecutablePath = ""
  /\ getEnvironmentExecutablePath # ""
  /\ ~isReadOnlyEnabled

ClassifyNext ==
  \E p \in ClassifyCallers :
    \/ CallClassifyQuery(p)
    \/ ValidateDone(p)
    \/ ExecDone(p)

ClassifySpec == ClassifyInit /\ [][ClassifyNext]_vars

\* a single caller calls open and close, and query only when its last call
\* was a close that has returned
ReopenCallers == {"c1"}

\* the last call of p was a close that has returned
Closed(p) == call[p].op = "close" /\ call[p].pc = "done"

CallQueryAfterClose(p) == Closed(p) /\ CallQuery(p)

ReopenNext ==
  \E p \in ReopenCallers :
    \/ CallOpen(p)
    \/ CallClose(p)
    \/ CloseFinish(p)
    \/ CallQueryAfterClose(p)
    \/ ValidateDone(p)
    \/ ExecDone(p)

ReopenSpec == Init /\ [][ReopenNext]_vars

\* getStaticCompletions, open and close called concurrently
CompletionNext ==
  \E p \in Callers :
    \/ CallGetStaticCompletions(p)
    \/ CallOpen(p)
    \/ CallClose(p)
    \/ CloseFinish(p)
    \/ ValidateDone(p)
    \/ ExecDone(p)

\* installations whose resolver validates a single candidate
CompletionSettings ==
  { s \in Settings :
      \/ s.credentials.duckdbCliPath # ""
      \/ s.credentials.duckdbPath # ""
      \/ s.envPath # ""
      \/ s.platform \notin DOMAIN AUTO_EXECUTABLE_CANDIDATES }

CompletionInit ==
  /\ Init
  /\ Setting(credentials, envPath, platform) \in CompletionSettings

CompletionSpec == CompletionInit /\ [][CompletionNext]_vars

\* every operation of the instance, called by a single caller one call
\* after the other
CacheCallers == {"c1"}

CacheNext ==
  \E p \in CacheCallers :
    \/ CallGetStaticCompletions(p)
    \/ CallOpen(p)
    \/ CallClose(p)
    \/ CloseFinish(p)
    \/ CallQuery(p)
    \/ CallTestConnection(p)
    \/ OpenReturn(p)
    \/ ValidateDone(p)
    \/ ExecDone(p)

CacheSpec == CompletionInit /\ [][CacheNext]_vars

(***************************************************************************)
(* addFunctionCompletions as a state machine: one action per row of the    *)
(* first forEach, one for the second forEach                               *)
(***************************************************************************)
\* most rows of one call
MaxRows == 4

\* function rows: overloads of abs, among them one written with white space
\* and lower case, one without parameters, one named by name only; a
\* function called like the keyword LEFT; a row whose label is no identifier
FunctionRowChoices ==
  { [label |-> <<"a","b","s">>, name |-> <<>>, category |-> "SCALAR", functionType |-> "scalar",
     description |-> "Absolute value", returnType |-> "BIGINT",
     parameters |-> <<"x">>, parameterTypes |-> <<"BIGINT">>, tags |-> <<>>],
    [label |-> <<" ","A","b","s">>, name |-> <<>>, category |-> "", functionType |-> "scalar",
     description |-> "Magnitude", returnType |-> "DOUBLE",
     parameters |-> <<"x">>, parameterTypes |-> <<"DOUBLE">>, tags |-> <<"math">>],
    [label |-> <<"a","b","s">>, name |-> <<>>, category |-> "", functionType |-> "macro",
     description |-> "", returnType |-> "HUGEINT",
     parameters |-> <<>>, parameterTypes |-> <<>>, tags |-> <<"kind=macro">>],
    [label |-> <<>>, name |-> <<"a","b","s">>, category |-> "", functionType |-> "",
     description |-> "", returnType |-> "INTEGER",
     parameters |-> <<>>, parameterTypes |-> <<"INTEGER">>, tags |-> <<>>],
    [label |-> <<"l","e","f","t">>, name |-> <<>>, category |-> "SCALAR", functionType |-> "scalar",
     description |-> "Leftmost characters", returnType |-> "VARCHAR",
     parameters |-> <<"string", "count">>, parameterTypes |-> <<"VARCHAR", "BIGINT">>,
     tags |-> <<"category=string">>],
    [label |-> <<"1","x">>, name |-> <<>>, category |-> "SCALAR", functionType |-> "scalar",
     description |-> "", returnType |-> "BIGINT",
     parameters |-> <<"x">>, parameterTypes |-> <<"BIGINT">>, tags |-> <<>>] }

FunctionRowLists == SeqsUpTo(FunctionRowChoices, MaxRows)

\* the mapping addFunctionCompletions is given: empty, or the keyword entries
KeywordMappings == {<<>>, addKeywordCompletions(KeywordRows, <<>>)}

MergeInit ==
  /\ sqlText = <<>>
  /\ scan = ScanInit
  /\ splitPc = "returned"
  /\ splitOut = <<>>
  /\ credentials = Credentials("", "", "", ReadOnlyFalse)
  /\ envPath = ""
  /\ platform = "linux"
  /\ connection = NoHandle
  /\ completionsCache = NoMap
  /\ call = [p \in Callers |-> Idle]
  /\ issued = [keywords |-> 0, functions |-> 0, legacy |-> 0]
  /\ firstCompleted = NoMap
  /\ \E rows \in FunctionRowLists, completions \in KeywordMappings :
       merge = [pc |-> "rows", items |-> rows, i |-> 1, functionMetaByLabel |-> <<>>,
                before |-> completions, completions |-> completions]

\* item.label || item.name
RowLabel(item) == IF item.label # <<>> THEN item.label ELSE item.name

\* the first forEach handles one row
MergeRow ==
  /\ merge.pc = "rows"
  /\ merge.i <= Len(merge.items)
  /\ merge' = [merge EXCEPT
                 !.i = @ + 1,
                 !.functionMetaByLabel =
                    AddFunctionRow(@, merge.items[merge.i],
                                   normalizeCompletionLabel(RowLabel(merge.items[merge.i])))]
  /\ UNCHANGED <<splitVars, driverVars>>

\* the second forEach builds the entries
MergeEntries ==
  /\ merge.pc = "rows"
  /\ merge.i > Len(merge.items)
  /\ merge' = [merge EXCEPT
                 !.pc = "returned",
                 !.completions = MergeFunctionMetas(merge.functionMetaByLabel, @)]
  /\ UNCHANGED <<splitVars, driverVars>>

MergeNext == MergeRow \/ MergeEntries

MergeSpec == MergeInit /\ [][MergeNext]_vars

(***************************************************************************)
(* The splitter as a state machine: one action per loop iteration          *)
(***************************************************************************)
SplitInit ==
  /\ sqlText \in Texts
  /\ scan = ScanInit
  /\ splitPc = "loop"
  /\ splitOut = <<>>
  /\ credentials = Credentials("", "", "", ReadOnlyFalse)
  /\ envPath = ""
  /\ platform = "linux"
  /\ connection = NoHandle
  /\ completionsCache = NoMap
  /\ call = [p \in Callers |-> Idle]
  /\ issued = [keywords |-> 0, functions |-> 0, legacy |-> 0]
  /\ firstCompleted = NoMap
  /\ merge = MergeIdle

SplitLoop ==
  /\ splitPc = "loop"
  /\ scan.i <= Len(sqlText)
  /\ scan' = ScanStep(scan, sqlText)
  /\ UNCHANGED <<sqlText, splitPc, splitOut, driverVars, merge>>

SplitReturn ==
  /\ splitPc = "loop"
  /\ scan.i > Len(sqlText)
  /\ splitOut' = ScanTail(scan)
  /\ splitPc' = "returned"
  /\ UNCHANGED <<sqlText, scan, driverVars, merge>>

SplitNext == SplitLoop \/ SplitReturn

SplitSpec == SplitInit /\ [][SplitNext]_vars

\* the splitter on scripts made of comments
CommentSplitInit ==
  /\ sqlText \in CommentTexts
  /\ scan = ScanInit
  /\ splitPc = "loop"
  /\ splitOut = <<>>
  /\ credentials = Credentials("", "", "", ReadOnlyFalse)
  /\ envPath = ""
  /\ platform = "linux"
  /\ connection = NoHandle
  /\ completionsCache = NoMap
  /\ call = [p \in Callers |-> Idle]
  /\ issued = [keywords |-> 0, functions |-> 0, legacy |-> 0]
  /\ firstCompleted = NoMap
  /\ merge = MergeIdle

CommentSplitSpec == CommentSplitInit /\ [][SplitNext]_vars

(***************************************************************************)
(* Properties of query                                                     *)
(***************************************************************************)
QueryCallers == {p \in Callers : call[p].op = "query"}

ReturnedQueries == {p \in QueryCallers : call[p].pc = "done"}

\* the statements of c that have a result so far
Answered(c) == 1..Len(c.resultsAgg)

\* C1: fail-fast batch execution. In a call of query the results are those of
\* the statements in order, one per statement; only the last result can be an
\* error result; a subprocess is spawned only for a statement up to the
\* current one, and none once a result is an error; the call returns with a
\* result for every statement, or with fewer results of which the last is the
\* error result of the first failed statement.
C1_FailFastBatch ==
  \A p \in QueryCallers :
    /\ Len(call[p].resultsAgg) <= Len(call[p].queries)
    /\ \A k \in Answered(call[p]) :
         /\ call[p].resultsAgg[k].query = call[p].queries[k]
         /\ call[p].resultsAgg[k].error =>
              /\ k = Len(call[p].resultsAgg)
              /\ call[p].pc = "done"
              /\ call[p].spawned \subseteq 1..k
    /\ call[p].spawned \subseteq 1..call[p].qi
    /\ call[p].pc = "done" /\ Len(call[p].resultsAgg) < Len(call[p].queries) =>
         /\ call[p].resultsAgg # <<>>
         /\ call[p].resultsAgg[Len(call[p].resultsAgg)].error

\* a script of three statements whose second statement failed in its
\* subprocess: two results, the third statement never spawned
C1_Witness ==
  \E p \in ReturnedQueries :
    /\ Len(call[p].queries) = 3
    /\ Len(call[p].resultsAgg) = 2
    /\ ~call[p].resultsAgg[1].error
    /\ call[p].resultsAgg[2].error
    /\ call[p].spawned = {1, 2}

\* C2: query never raises. A call of query never ends in a rejection; when
\* it has returned, a statement without a non-error result exists only if the
\* last result is an error result carrying a message, and the results before
\* it are kept.
C2_QueryNeverRaises ==
  \A p \in QueryCallers :
    /\ ~call[p].threw
    /\ call[p].err = <<>>
    /\ call[p].pc = "done" /\ call[p].queries # <<>> =>
         /\ call[p].resultsAgg # <<>>
         /\ \A k \in Answered(call[p]) :
              call[p].resultsAgg[k].error => call[p].resultsAgg[k].messages[1] # <<>>
         /\ \/ Len(call[p].resultsAgg) = Len(call[p].queries)
            \/ call[p].resultsAgg[Len(call[p].resultsAgg)].error

\* the lazy open of the second statement failed before any subprocess was
\* spawned for it (another caller had closed the handle); the first result
\* is kept and the failure is the second result
C2_Witness ==
  \E p \in ReturnedQueries :
    /\ Len(call[p].resultsAgg) = 2
    /\ ~call[p].resultsAgg[1].error
    /\ call[p].resultsAgg[2].error
    /\ call[p].spawned = {1}

(***************************************************************************)
(* Properties of open and the executable resolver                          *)
(***************************************************************************)
Validating == {p \in Callers : call[p].pc = "validating"}

\* C3: at most one executable resolution is in flight at any time.
C3_SingleResolutionInFlight == Cardinality(Validating) <= 1

\* C4: the stored handle is never replaced by another handle without a close
\* in between.
C4_HandleReplacedOnlyAfterClose ==
  [][connection # NoHandle => connection' \in {connection, NoHandle}]_vars

\* C5: with read-only enabled and the in-memory marker as database, no
\* candidate is ever validated.
C5_ReadOnlyMemoryBeforeResolution ==
  isReadOnlyEnabled /\ getDatabase = MemoryMarker => Validating = {}

\* the messages of the failures a call has met: the Error it rejected with
\* and the messages of its error results
Failures(c) ==
  (IF c.threw THEN {c.err} ELSE {})
    \cup {c.resultsAgg[k].messages[1] : k \in {j \in Answered(c) : c.resultsAgg[j].error}}

ConfiguredPrefix == "Invalid \"duckdbCliPath\" / \"duckdbPath\":"

EnvironmentPrefix == "Invalid environment variable DUCKDB_CLI_PATH:"

\* the failures of c that resolveExecutablePath raised
ResolutionFailures(c) ==
  {m \in Failures(c) : m[1] \in {ConfiguredPrefix, EnvironmentPrefix, NotFoundMessage(<<>>)[1]}}

\* every validation, every handle and every resolution failure is that of
\* the one candidate: no other candidate was tried
OnlyCandidate(src, path, prefix) ==
  /\ \A p \in Validating :
       call[p].cand = [src |-> src, path |-> path] /\ call[p].attempts = <<>>
  /\ \A p \in Callers :
       /\ call[p].h # NoHandle => call[p].h.executablePath = path
       /\ \A m \in ResolutionFailures(call[p]) : m[1] = prefix /\ m[2] = path
  /\ connection # NoHandle => connection.executablePath = path

\* the step of a caller whose validation ends starts no further validation
NoSecondValidation ==
  \A p \in Validating : call'[p] # call[p] => call'[p].pc # "validating"

\* C6: when a configured executable path is set, it is the only candidate
\* ever validated; when its validation fails the resolution fails at once
\* with an error naming that path, and neither the environment override nor
\* an auto-discovery candidate is validated afterwards.
C6_ConfiguredFailFast ==
  [][getConfiguredExecutablePath # "" =>
       /\ OnlyCandidate("configured", getConfiguredExecutablePath, ConfiguredPrefix)
       /\ NoSecondValidation]_vars

\* open rejected on the configured path although the environment override
\* was set
C6_Witness ==
  /\ getEnvironmentExecutablePath # ""
  /\ \E p \in Callers :
       /\ call[p].threw
       /\ call[p].err[1] = ConfiguredPrefix
       /\ call[p].err[2] = getConfiguredExecutablePath

\* C7: the environment override is validated only when no configured path is
\* set; then it is the only candidate ever validated: when it validates it is
\* the executable of the handle, when it fails the resolution fails at once
\* with an error naming it, and no auto-discovery candidate is validated.
C7_EnvironmentOrder ==
  [][/\ \A p \in Validating :
          call[p].cand.src = "environment" => getConfiguredExecutablePath = ""
     /\ getConfiguredExecutablePath = "" /\ getEnvironmentExecutablePath # "" =>
          /\ OnlyCandidate("environment", getEnvironmentExecutablePath, EnvironmentPrefix)
          /\ NoSecondValidation]_vars

\* of two resolutions of the environment override one failed and the other
\* gave the handle its executable
C7_Witness ==
  /\ getConfiguredExecutablePath = ""
  /\ connection # NoHandle
  /\ connection.executablePath = getEnvironmentExecutablePath
  /\ \E p \in Callers :
       /\ call[p].threw
       /\ call[p].err[1] = EnvironmentPrefix
       /\ call[p].err[2] = getEnvironmentExecutablePath

(***************************************************************************)
(* Properties of getStaticCompletions                                      *)
(***************************************************************************)
\* C8: the keyword query and the function query are each issued at most once
\* per instance.
C8_IntrospectionIssuedOnce == issued.keywords <= 1 /\ issued.functions <= 1

\* C9: a call made after a call has completed returns the mapping that first
\* completed call returned.
C9_LaterCallsReturnFirstMapping ==
  \A p \in Callers :
    call[p].op = "completions" /\ call[p].late /\ call[p].pc = "done" =>
      call[p].completions = firstCompleted

(***************************************************************************)
(* Properties of splitSqlStatements                                        *)
(***************************************************************************)
\* the quoted region position k of text lies in, by the rule of SQL: a quote
\* character opens a region in normal text and the same quote character
\* ends it; a doubled quote ends the region and opens it again at once, so
\* that the text after it is still inside
RECURSIVE QuoteRegion(_, _)
QuoteRegion(text, k) ==
  IF k = 1 THEN "normal"
  ELSE IF QuoteRegion(text, k - 1) = "normal"
    THEN (IF text[k - 1] = "'" THEN "single"
          ELSE IF text[k - 1] = "\"" THEN "double" ELSE "normal")
  ELSE IF QuoteRegion(text, k - 1) = "single"
    THEN (IF text[k - 1] = "'" THEN "normal" ELSE "single")
  ELSE (IF text[k - 1] = "\"" THEN "normal" ELSE "double")

\* text cut at the semicolons that lie in no quoted region
RECURSIVE CutOutsideQuotes(_, _, _)
CutOutsideQuotes(text, k, piece) ==
  IF k > Len(text) THEN <<piece>>
  ELSE IF text[k] = ";" /\ QuoteRegion(text, k) = "normal"
    THEN <<piece>> \o CutOutsideQuotes(text, k + 1, <<>>)
  ELSE CutOutsideQuotes(text, k + 1, Append(piece, text[k]))

NotBlank(piece) == trim(piece) # <<>>

TrimAll(pieces) == [k \in DOMAIN pieces |-> trim(pieces[k])]

\* the statements of a text that holds no comment
QuotedStatements(text) == TrimAll(SelectSeq(CutOutsideQuotes(text, 1, <<>>), NotBlank))

NoCommentCharacter(text) == \A k \in DOMAIN text : text[k] \notin {"-", "/"}

\* C10: splitter quoting. An iteration of the scan ends a statement only when
\* it scans a semicolon in normal mode: a semicolon scanned inside a single-
\* quoted or double-quoted region ends none. For a text without comments the
\* statements returned are the trimmed non-blank pieces between the
\* semicolons that lie outside the quoted regions, where a doubled quote
\* character keeps its region open.
C10_SplitterQuoting ==
  [][/\ scan'.statements # scan.statements =>
          /\ sqlText[scan.i] = ";"
          /\ ~scan.inSingleQuote /\ ~scan.inDoubleQuote
          /\ ~scan.inLineComment /\ ~scan.inBlockComment
     /\ splitPc' = "returned" /\ NoCommentCharacter(sqlText) =>
          splitOut' = QuotedStatements(sqlText)]_vars

\* the semicolon after an escaped quote is still inside the region: the
\* whole text is returned as one statement
C10_Witness ==
  /\ splitPc = "returned"
  /\ sqlText = <<"'", "'", "'", ";">>
  /\ QuoteRegion(sqlText, 4) = "single"
  /\ splitOut = <<sqlText>>

\* text has the two characters a, b at positions k, k + 1
PairAt(text, k, a, b) == k + 1 <= Len(text) /\ text[k] = a /\ text[k + 1] = b

\* the text the scan has passed since the last statement ended
SinceLastStatement(st, text) == SubSeq(text, st.i - Len(st.current), Len(text))

\* C11: splitter comments. An iteration of the scan inside a line comment or a
\* block comment ends no statement; a line comment lasts up to and including
\* the next newline; a block comment lasts until its closing star-slash. A
\* text that opens with a block comment never closed, or with a line comment
\* without a newline, is returned as one statement; when the scan ends inside
\* a block comment everything since the end of the last statement is returned
\* as the single final statement.
C11_SplitterComments ==
  [][/\ scan.i <= Len(sqlText) /\ (scan.inLineComment \/ scan.inBlockComment) =>
          /\ scan'.statements = scan.statements
          /\ scan'.inLineComment = (scan.inLineComment /\ sqlText[scan.i] # "\n")
          /\ scan'.inBlockComment = (scan.inBlockComment /\ ~PairAt(sqlText, scan.i, "*", "/"))
     /\ splitPc' = "returned" =>
          /\ scan.inBlockComment =>
               /\ scan.i - Len(scan.current) = 1 \/ sqlText[scan.i - Len(scan.current) - 1] = ";"
               /\ splitOut' = Append(scan.statements, trim(SinceLastStatement(scan, sqlText)))
          /\ PairAt(sqlText, 1, "/", "*") /\ (\A k \in 3..Len(sqlText) : ~PairAt(sqlText, k, "*", "/")) =>
               splitOut' = <<trim(sqlText)>>
          /\ PairAt(sqlText, 1, "-", "-") /\ (\A k \in 3..Len(sqlText) : sqlText[k] # "\n") =>
               splitOut' = <<trim(sqlText)>>]_vars

\* a closed block comment holding a semicolon, then a semicolon in normal
\* mode: one statement, the comment
C11_Witness ==
  /\ splitPc = "returned"
  /\ sqlText = <<"/", "*", ";", "*", "/", ";">>
  /\ splitOut = << <<"/", "*", ";", "*", "/">> >>

\* the positions of text that hold something other than white space
Ink(text) == {k \in DOMAIN text : text[k] \notin WhiteSpace}

Least(S) == CHOOSE k \in S : \A j \in S : k <= j

Greatest(S) == CHOOSE k \in S : \A j \in S : j <= k

\* text without the white space around it
Stripped(text) ==
  IF Ink(text) = {} THEN <<>> ELSE SubSeq(text, Least(Ink(text)), Greatest(Ink(text)))

\* the segments of a text in which a semicolon follows every segment
RECURSIVE Segments(_, _, _)
Segments(text, k, piece) ==
  IF k > Len(text) THEN <<>>
  ELSE IF text[k] = ";" THEN <<piece>> \o Segments(text, k + 1, <<>>)
  ELSE Segments(text, k + 1, Append(piece, text[k]))

\* text is segments with some content, without quote characters and comment
\* openers, each followed by one semicolon
SemicolonTerminated(text) ==
  /\ text # <<>>
  /\ text[Len(text)] = ";"
  /\ \A k \in DOMAIN text :
       /\ text[k] \notin {"'", "\""}
       /\ ~PairAt(text, k, "-", "-")
       /\ ~PairAt(text, k, "/", "*")
  /\ \A n \in DOMAIN Segments(text, 1, <<>>) : Ink(Segments(text, 1, <<>>)[n]) # {}

\* C12: splitter count and order. For a text of N segments with content,
\* without quote characters and comment openers, each followed by one
\* semicolon, the splitter returns N statements, the i-th being the i-th
\* segment without the white space around it. Every statement the splitter
\* returns, for any text, is non-empty and neither starts nor ends with
\* white space.
C12_SplitterCountAndOrder ==
  splitPc = "returned" =>
    /\ SemicolonTerminated(sqlText) =>
         /\ Len(splitOut) = Len(Segments(sqlText, 1, <<>>))
         /\ \A n \in DOMAIN splitOut : splitOut[n] = Stripped(Segments(sqlText, 1, <<>>)[n])
    /\ \A n \in DOMAIN splitOut :
         /\ splitOut[n] # <<>>
         /\ splitOut[n][1] \notin WhiteSpace
         /\ splitOut[n][Len(splitOut[n])] \notin WhiteSpace

\* three different segments returned in their order
C12_Witness ==
  /\ splitPc = "returned"
  /\ SemicolonTerminated(sqlText)
  /\ sqlText = <<"-", ";", "*", ";", "/", ";">>
  /\ splitOut = << <<"-">>, <<"*">>, <<"/">> >>

\* no semicolon of text ends a statement: there is none, or text holds no
\* comment and each semicolon lies in a quoted region
NoTopLevelSemicolon(text) ==
  \/ \A k \in DOMAIN text : text[k] # ";"
  \/ /\ NoCommentCharacter(text)
     /\ \A k \in DOMAIN text : text[k] = ";" => QuoteRegion(text, k) # "normal"

\* C13: splitter tail. When the splitter returns, the text the scan passed
\* since the last statement ended is the end of the script and starts at
\* the start of the script or after a semicolon; it is returned as the final
\* statement, without the white space around it, when it holds anything but
\* white space, and no statement is added otherwise. A script without a
\* top-level semicolon that holds anything but white space gives the one
\* statement that is the script without the white space around it; an empty
\* or white-space-only script gives no statement.
C13_SplitterTail ==
  splitPc = "returned" =>
    /\ scan.current = SinceLastStatement(scan, sqlText)
    /\ scan.i - Len(scan.current) = 1 \/ sqlText[scan.i - Len(scan.current) - 1] = ";"
    /\ splitOut = IF Ink(scan.current) # {}
                    THEN Append(scan.statements, Stripped(scan.current))
                    ELSE scan.statements
    /\ NoTopLevelSemicolon(sqlText) /\ Ink(sqlText) # {} => splitOut = <<Stripped(sqlText)>>
    /\ Ink(sqlText) = {} => splitOut = <<>>

\* a statement ended by its semicolon, then a tail with white space before it
C13_Witness ==
  /\ splitPc = "returned"
  /\ sqlText = <<"a", ";", " ", "a">>
  /\ scan.statements = << <<"a">> >>
  /\ scan.current = <<" ", "a">>
  /\ splitOut = << <<"a">>, <<"a">> >>

(***************************************************************************)
(* Properties of the results of query                                      *)
(***************************************************************************)
\* the characters of text before its first character that is no word
\* character
RECURSIVE WordPrefix(_)
WordPrefix(text) ==
  IF text = <<>> \/ ~IsWordChar(Head(text)) THEN <<>>
  ELSE <<Head(text)>> \o WordPrefix(Tail(text))

\* the first word of a statement, in lower case
LeadingKeyword(q) ==
  [k \in DOMAIN WordPrefix(Stripped(q)) |-> toLowerCase(WordPrefix(Stripped(q))[k])]

SuccessNotice == <<"Statement executed successfully.">>

\* C14: result classification. A non-error result without rows has no
\* message when the first word of its statement is select, with, pragma,
\* show, describe, call, explain or summarize in any case, and exactly the
\* one message that the statement executed successfully otherwise; a
\* non-error result with rows has no message.
C14_ResultClassification ==
  \A p \in QueryCallers : \A k \in Answered(call[p]) :
    ~call[p].resultsAgg[k].error =>
      call[p].resultsAgg[k].messages =
        IF call[p].resultsAgg[k].results = <<>>
             /\ LeadingKeyword(call[p].resultsAgg[k].query) \notin ResultSetWords
          THEN <<SuccessNotice>>
          ELSE <<>>

\* the empty result of a statement that only starts like a select carries
\* the message
C14_Witness ==
  \E p \in ReturnedQueries :
    /\ call[p].resultsAgg # <<>>
    /\ call[p].resultsAgg[1].query = <<"s","e","l","e","c","t","s">>
    /\ LeadingKeyword(call[p].resultsAgg[1].query) = <<"s","e","l","e","c","t","s">>
    /\ ~call[p].resultsAgg[1].error
    /\ call[p].resultsAgg[1].results = <<>>
    /\ call[p].resultsAgg[1].messages = <<SuccessNotice>>

\* C15: per-statement result invariant. In the results of a call of query,
\* a result with the error flag has no rows, no columns and exactly one
\* message, which is not empty; it is the last result, so that at most one
\* result has the error flag.
C15_ErrorResultShape ==
  \A p \in QueryCallers : \A k \in Answered(call[p]) :
    call[p].resultsAgg[k].error =>
      /\ call[p].resultsAgg[k].results = <<>>
      /\ call[p].resultsAgg[k].cols = <<>>
      /\ Len(call[p].resultsAgg[k].messages) = 1
      /\ call[p].resultsAgg[k].messages[1] # <<>>
      /\ k = Len(call[p].resultsAgg)
      /\ \A j \in Answered(call[p]) : call[p].resultsAgg[j].error => j = k

\* the third statement failed in its subprocess after a result with rows
\* and columns: the error result carries the text of the failure alone
C15_Witness ==
  \E p \in ReturnedQueries :
    /\ Len(call[p].resultsAgg) = 3
    /\ call[p].resultsAgg[2].results = CountRows
    /\ call[p].resultsAgg[2].cols = <<"Count">>
    /\ call[p].resultsAgg[3].error
    /\ call[p].resultsAgg[3].cols = <<>>
    /\ call[p].resultsAgg[3].messages = << <<"engine error">> >>

\* the statements of c whose subprocess was spawned and has not ended
InFlight(c) == c.spawned \ Answered(c)

\* C16: strictly sequential batch. In a call of query at most one statement
\* subprocess is in flight, that of the current statement; a subprocess was
\* spawned for a statement only when every statement before it has a
\* non-error result; and the step that spawns a subprocess spawns one, that
\* of the statement after the last result.
C16_SequentialBatch ==
  [][\A p \in Callers :
       call'[p].op = "query" =>
         /\ Cardinality(InFlight(call'[p])) <= 1
         /\ InFlight(call'[p]) \subseteq {call'[p].qi}
         /\ InFlight(call'[p]) # {} <=> call'[p].pc = "exec"
         /\ \A k \in call'[p].spawned : \A j \in 1..(k - 1) :
              j \in Answered(call'[p]) /\ ~call'[p].resultsAgg[j].error
         /\ call[p].op = "query" /\ call[p].pc # "done" =>
              call'[p].spawned \ call[p].spawned \in
                {{}, {Len(call'[p].resultsAgg) + 1}}]_vars

\* the subprocess of the second statement is in flight after the first
\* statement got its result
C16_Witness ==
  \E p \in QueryCallers :
    /\ call[p].pc = "exec"
    /\ call[p].qi = 2
    /\ call[p].spawned = {1, 2}
    /\ InFlight(call[p]) = {2}
    /\ Len(call[p].resultsAgg) = 1
    /\ ~call[p].resultsAgg[1].error

(***************************************************************************)
(* Properties of addFunctionCompletions                                    *)
(***************************************************************************)
\* the key of row k of the call
RowKey(k) == normalizeCompletionLabel(RowLabel(merge.items[k]))

\* const signature of row k: the key and the rendered parameters
RowSignature(k) ==
  <<RowKey(k), SignatureParams(merge.items[k].parameters, merge.items[k].parameterTypes)>>

\* the rows of the call that have the key
RowsOf(key) == {k \in DOMAIN merge.items : RowKey(k) = key}

\* the signatures the documentation of an entry lists
EntrySignatures(entry) ==
  UNION {Range(entry.documentation[d].signatures) : d \in DOMAIN entry.documentation}

\* C17: completion merge of overloads. Two rows with the same key and
\* different signatures give one entry for the key, and the signatures of
\* that entry contain the signatures of both rows.
C17_OverloadsMerged ==
  merge.pc = "returned" =>
    \A i \in DOMAIN merge.items : \A j \in RowsOf(RowKey(i)) :
      RowKey(i) # <<>> /\ RowSignature(i) # RowSignature(j) =>
        /\ RowKey(i) \in DOMAIN merge.completions
        /\ {RowSignature(i), RowSignature(j)} \subseteq EntrySignatures(merge.completions[RowKey(i)])

\* the category of row k, as the first forEach computes it
RowCategory(k) ==
  toUpperCaseWord(IF merge.items[k].category # "" THEN merge.items[k].category
                  ELSE IF merge.items[k].functionType # "" THEN merge.items[k].functionType
                  ELSE "FUNCTION")

\* what the documentation of an entry lists
EntryCategories(entry) ==
  UNION {Range(entry.documentation[d].TYPE) : d \in DOMAIN entry.documentation}

EntryReturnTypes(entry) ==
  UNION {Range(entry.documentation[d].RETURNS) : d \in DOMAIN entry.documentation}

EntryTags(entry) ==
  UNION {Range(entry.documentation[d].TAGS) : d \in DOMAIN entry.documentation}

\* C18: merging is lossless. The entry of a key carries the category, the
\* return type, the signature and the tags of every row that has the key.
C18_MergeLossless ==
  merge.pc = "returned" =>
    \A k \in DOMAIN merge.items :
      RowKey(k) # <<>> =>
        /\ RowKey(k) \in DOMAIN merge.completions
        /\ RowCategory(k) \in EntryCategories(merge.completions[RowKey(k)])
        /\ merge.items[k].returnType # "" =>
             merge.items[k].returnType \in EntryReturnTypes(merge.completions[RowKey(k)])
        /\ RowSignature(k)[2] # <<>> =>
             RowSignature(k) \in EntrySignatures(merge.completions[RowKey(k)])
        /\ Range(merge.items[k].tags) \subseteq EntryTags(merge.completions[RowKey(k)])

\* the labels of the entries made from keywords, those of them that lead a
\* statement, and the labels of the entries made from functions alone
KeywordLabels == DOMAIN merge.before

LeadingLabels == KeywordLabels \cap PRIORITIZED_SQL_WORDS

FunctionOnlyLabels == DOMAIN merge.completions \ KeywordLabels

\* the first character of a sort text; it differs between the kinds of
\* entries, so it decides their order
SortLead(entry) ==
  CASE entry.sortText[1] = "2:" -> 2
    [] entry.sortText[1] = "3:" -> 3
    [] entry.sortText[1] = "4:" -> 4

SortsBefore(a, b) == SortLead(a) < SortLead(b)

\* C19: completion sort priority. Every entry of a statement-leading keyword
\* sorts before every entry of an ordinary keyword, and every entry of an
\* ordinary keyword sorts before every function-only entry.
C19_SortPriority ==
  merge.pc = "returned" =>
    /\ \A a \in LeadingLabels : \A b \in KeywordLabels \ LeadingLabels :
         SortsBefore(merge.completions[a], merge.completions[b])
    /\ \A b \in KeywordLabels \ LeadingLabels : \A c \in FunctionOnlyLabels :
         SortsBefore(merge.completions[b], merge.completions[c])

(***************************************************************************)
(* Properties of the introspection fallbacks                               *)
(***************************************************************************)
\* the key of the function every function query of the engine lists
AbsKey == normalizeCompletionLabel(<<"a","b","s">>)

\* the calls of getStaticCompletions that have returned a mapping they built
BuiltMapping(p) ==
  call[p].op = "completions" /\ call[p].pc = "done" /\ call[p].stage = "cached"

\* what holds of a call of getStaticCompletions whatever queries fail: it
\* raises nothing, after a failed keyword query its mapping holds the
\* built-in keywords, its legacy function query is issued only after the rich
\* one failed, and the mapping it returns is never empty
NeverAborts(p) ==
  /\ ~call[p].threw
  /\ call[p].warned \subseteq {"keywords", "functions", "legacy"}
  /\ "keywords" \in call[p].warned =>
       DOMAIN keywordsCompletion \subseteq DOMAIN call[p].completions.entries
  /\ call[p].stage = "legacy" \/ "legacy" \in call[p].warned =>
       "functions" \in call[p].warned
  /\ call[p].pc = "done" => DOMAIN call[p].completions.entries # {}

\* the call returned a mapping without an entry from a function row
NoFunctionEntry(p) ==
  BuiltMapping(p) /\ AbsKey \notin DOMAIN call[p].completions.entries

\* the last function query of the call succeeded and gave no rows
LastQueryGaveNoRows(p) ==
  /\ call[p].resultsAgg # <<>>
  /\ ~call[p].resultsAgg[Len(call[p].resultsAgg)].error
  /\ call[p].resultsAgg[Len(call[p].resultsAgg)].results = <<>>

\* C20 as the claim states it: introspection failures never abort
\* completion, and the function set is empty only when both function
\* queries have failed.
C20_EmptyOnlyAfterBothFailed ==
  \A p \in Callers :
    call[p].op = "completions" =>
      /\ NeverAborts(p)
      /\ NoFunctionEntry(p) => {"functions", "legacy"} \subseteq call[p].warned

\* C20: introspection failures never abort completion. Whatever queries
\* fail, getStaticCompletions raises nothing; after a failed keyword query
\* the mapping holds the built-in keywords; the legacy function query is
\* issued only after the rich one failed; the returned mapping is never
\* empty; and the function set is empty only when both function queries
\* failed or the last of them succeeded without rows.
C20_IntrospectionNeverAborts ==
  \A p \in Callers :
    call[p].op = "completions" =>
      /\ NeverAborts(p)
      /\ NoFunctionEntry(p) =>
           \/ {"functions", "legacy"} \subseteq call[p].warned
           \/ LastQueryGaveNoRows(p)

\* one call has returned the built-in table after all three of its queries
\* failed, another a mapping built from queries that all succeeded
C20_Witness ==
  \E p \in Callers, q \in Callers :
    /\ BuiltMapping(p) /\ call[p].warned = {"keywords", "functions", "legacy"}
    /\ call[p].completions.entries = keywordsCompletion
    /\ BuiltMapping(q) /\ call[q].warned = {}
    /\ AbsKey \in DOMAIN call[q].completions.entries

(***************************************************************************)
(* Properties of the subprocess invocation                                 *)
(***************************************************************************)
\* the calls whose statement subprocess is running
Executing(p) == call[p].pc = "exec"

\* C21: CLI invocation shape. The subprocess of a statement is given the
\* database path of the handle that open returned, then -readonly exactly
\* when that handle is read-only, then -json, -c and the statement; the
\* read-only flag of the handle is the one computed when it was opened.
C21_InvocationShape ==
  \A p \in Callers :
    Executing(p) =>
      /\ call[p].h # NoHandle
      /\ call[p].args[1] = call[p].h.databasePath
      /\ call[p].h.readOnly <=> ("-readonly" \in Range(call[p].args))
      /\ call[p].h.readOnly => call[p].args[2] = "-readonly"
      /\ Len(call[p].args) = IF call[p].h.readOnly THEN 5 ELSE 4
      /\ SubSeq(call[p].args, Len(call[p].args) - 2, Len(call[p].args))
           = <<"-json", "-c", call[p].queries[call[p].qi]>>
      /\ call[p].h.readOnly = isReadOnlyEnabled
      /\ call[p].h.databasePath = getDatabase

\* a statement of a user script runs against a read-only database file
C21_Witness ==
  \E p \in Callers :
    /\ Executing(p) /\ call[p].op = "query"
    /\ call[p].h.readOnly /\ call[p].h.databasePath # MemoryMarker
    /\ call[p].args[2] = "-readonly"

(***************************************************************************)
(* Properties of auto-discovery                                            *)
(***************************************************************************)
\* the call validates a candidate of the platform list
Discovering(p) == call[p].pc = "validating" /\ call[p].cand.src = "auto"

\* the attempts recorded so far are those of the candidates before the
\* current one, in list order
AttemptsInListOrder(p) ==
  /\ call[p].ci \in 1..Len(getAutoExecutableCandidates)
  /\ call[p].cand.path = getAutoExecutableCandidates[call[p].ci]
  /\ Len(call[p].attempts) = call[p].ci - 1
  /\ \A k \in DOMAIN call[p].attempts :
       /\ call[p].attempts[k][1] = getAutoExecutableCandidates[k]
       /\ call[p].attempts[k][2] = "->"

\* number of pairs an aggregate error lists for n attempts
Listed(n) == IF n < 5 THEN n ELSE 5

\* message is the aggregate error of auto-discovery after the attempts of c
\* and one more: the two sentences, then the first pairs separated by "|"
AggregateOf(message, c) ==
  /\ message[1] = "DuckDB CLI executable was not found."
  /\ message[3] = "Attempted:"
  /\ Len(message) = 3 + 5 * Listed(Len(c.attempts) + 1) - 1
  /\ \A k \in 1..Listed(Len(c.attempts) + 1) :
       /\ message[5 * k - 1] = getAutoExecutableCandidates[k]
       /\ message[5 * k] = "->"
       /\ k <= Len(c.attempts) => SubSeq(message, 5 * k - 1, 5 * k + 2) = c.attempts[k]
       /\ k > 1 => message[5 * k - 2] = "|"

\* the message of the error open ended with, for a call of open
OpenError(c) == IF c.op = "open" /\ c.threw THEN c.err ELSE <<>>

\* one step of a call that is validating an auto-discovery candidate
DiscoveryStep(p) ==
  Discovering(p) /\ call'[p] # call[p] =>
    /\ AttemptsInListOrder(p)
    /\ Discovering(p)' =>
         /\ call'[p].ci = call[p].ci + 1
         /\ Len(call'[p].attempts) = Len(call[p].attempts) + 1
         /\ SubSeq(call'[p].attempts, 1, Len(call[p].attempts)) = call[p].attempts
         /\ call'[p].attempts[call[p].ci][1] = call[p].cand.path
    /\ connection' # connection =>
         /\ connection'.executablePath = call[p].cand.path
         /\ call'[p].pc # "validating"
    /\ OpenError(call'[p]) # <<>> /\ OpenError(call'[p])[1] = "DuckDB CLI executable was not found." =>
         /\ call[p].ci = Len(getAutoExecutableCandidates)
         /\ AggregateOf(OpenError(call'[p]), call[p])

\* C22: auto-discovery order. With neither a configured path nor an
\* environment override, the candidates are validated one at a time in
\* list order; the candidate that validates is the executable of the handle
\* and no later candidate is validated; the resolution fails only after the
\* last candidate failed, with an error that lists the first (at most 5)
\* candidate/reason pairs in attempt order.
C22_AutoDiscoveryOrder == [][\A p \in Callers : DiscoveryStep(p)]_vars

\* open failed after every one of the four candidates of linux failed
C22_Witness ==
  \E p \in Callers :
    /\ OpenError(call[p]) # <<>>
    /\ OpenError(call[p])[1] = "DuckDB CLI executable was not found."
    /\ Len(call[p].attempts) = 3
    /\ Len(getAutoExecutableCandidates) = 4

(***************************************************************************)
(* Properties of the scanner modes                                         *)
(***************************************************************************)
\* the flags of a scanner state that are set
FlagsSet(st) ==
  {f \in {"inSingleQuote", "inDoubleQuote", "inLineComment", "inBlockComment"} : st[f]}

InComment(st) == st.inLineComment \/ st.inBlockComment

InQuote(st) == st.inSingleQuote \/ st.inDoubleQuote

\* the iteration reads a quote character
AtQuote == scan.i <= Len(sqlText) /\ sqlText[scan.i] \in {"'", "\""}

\* the iteration reads the first character of -- or /*
AtCommentOpener ==
  /\ scan.i <= Len(sqlText)
  /\ <<sqlText[scan.i], NextChar(sqlText, scan.i)>> \in {<<"-", "-">>, <<"/", "*">>}

\* one iteration of the loop keeps the modes exclusive
ModeStep ==
  /\ Cardinality(FlagsSet(scan')) <= 1
  /\ InComment(scan) /\ AtQuote => ~InQuote(scan')
  /\ InQuote(scan) /\ AtCommentOpener => ~InComment(scan')

\* C23: splitter mode exclusivity. At every step of the scan at most one of
\* the four flags is set; a quote character read inside a comment opens no
\* quoted region, and a comment opener read inside a quoted region opens no
\* comment.
C23_ModeExclusivity ==
  /\ Cardinality(FlagsSet(scan)) <= 1
  /\ [][ModeStep]_vars

\* the scanner has read a quote inside a line comment and stays in the comment
C23_Witness ==
  /\ sqlText = <<"-", "-", "'", "a">>
  /\ scan.i = 4
  /\ FlagsSet(scan) = {"inLineComment"}

(***************************************************************************)
(* Properties of the collision of a function with a keyword                *)
(***************************************************************************)
\* the keys of the function groups of the call
RowKeys == {RowKey(k) : k \in DOMAIN merge.items} \ {<<>>}

\* the categories of the rows of a key
CategoriesOf(key) == {RowCategory(k) : k \in RowsOf(key)}

\* the last block of the documentation of an entry is the documentation of
\* the function group of key
EndsWithFunctionDoc(entry, key) ==
  /\ entry.documentation # <<>>
  /\ entry.documentation[Len(entry.documentation)].WORD = key
  /\ Range(entry.documentation[Len(entry.documentation)].TYPE) = CategoriesOf(key)

\* the entry is the one the mapping held, with one block of documentation more
Extends(entry, old) ==
  /\ entry.label = old.label
  /\ entry.detail = old.detail
  /\ entry.filterText = old.filterText
  /\ entry.sortText = old.sortText
  /\ Len(entry.documentation) = Len(old.documentation) + 1
  /\ SubSeq(entry.documentation, 1, Len(old.documentation)) = old.documentation

\* C24: keyword/function collision. A function group whose label is already
\* in the mapping leaves label, detail, filter text and sort text of that
\* entry unchanged and appends its documentation to the entry's; a new
\* function entry is made only for a label the mapping did not hold; the
\* mapping has one entry for each label.
C24_Collision ==
  merge.pc = "returned" =>
    /\ DOMAIN merge.completions = DOMAIN merge.before \cup RowKeys
    /\ \A l \in DOMAIN merge.before \cap RowKeys :
         /\ Extends(merge.completions[l], merge.before[l])
         /\ EndsWithFunctionDoc(merge.completions[l], l)
    /\ \A l \in DOMAIN merge.before \ RowKeys : merge.completions[l] = merge.before[l]
    /\ \A l \in RowKeys \ DOMAIN merge.before :
         /\ merge.completions[l].label = l
         /\ merge.completions[l].sortText = <<"3:", l>>
         /\ Len(merge.completions[l].documentation) = 1
         /\ EndsWithFunctionDoc(merge.completions[l], l)

\* a function called like the keyword LEFT was merged into the keyword
\* entry, and a function no keyword is called like got an entry of its own
C24_Witness ==
  /\ merge.pc = "returned"
  /\ DOMAIN merge.before \cap RowKeys # {}
  /\ RowKeys \ DOMAIN merge.before # {}
  /\ DOMAIN merge.before \ RowKeys # {}

(***************************************************************************)
(* Properties of a failed open                                             *)
(***************************************************************************)
\* the step in which the open of p fails: its caller sees the rejection
\* (open, testConnection), or query pushes an error result without a
\* subprocess, or getStaticCompletions logs the warning of a catch block
OpenFails(p) ==
  /\ call[p].pc = "validating"
  /\ \/ call'[p].threw
     \/ /\ call[p].op \in {"query", "test"}
        /\ Len(call'[p].resultsAgg) = Len(call[p].resultsAgg) + 1
     \/ /\ call[p].op = "completions"
        /\ call'[p].warned # call[p].warned

\* p calls open, or query with a script that has a statement
OpenOrQueryStarts(p) ==
  /\ Ready(p)
  /\ call'[p] # call[p]
  /\ call'[p].op = "open" \/ (call'[p].op = "query" /\ call'[p].queries # <<>>)

\* the call validates the first candidate of a resolution of its own
FreshResolution(c) ==
  /\ c.pc = "validating"
  /\ c.cand = FirstCandidate
  /\ c.attempts = <<>>
  /\ c.h = NoHandle

\* a stored handle is one a successful open constructed
CompleteHandle(h) ==
  h # NoHandle =>
    /\ h.executablePath # ""
    /\ h.databasePath = getDatabase
    /\ h.readOnly = isReadOnlyEnabled
    /\ ~(h.readOnly /\ h.databasePath = MemoryMarker)

FailedOpenStep(p) ==
  /\ OpenFails(p) => connection' = connection
  /\ OpenOrQueryStarts(p) /\ connection = NoHandle => FreshResolution(call'[p])
  /\ CompleteHandle(connection')

QueryStarts(p) == Ready(p) /\ call'[p] # call[p] /\ call'[p].op = "query"

\* a step of a query whose open was resolving: open failed and an error
\* result is pushed, or the new handle is stored and the subprocess of the
\* statement is spawned with it
ResolvingStep(p) ==
  call[p].op = "query" /\ call[p].pc = "validating" /\ call'[p].pc # "validating" =>
    \/ /\ Len(call'[p].resultsAgg) = Len(call[p].resultsAgg) + 1
       /\ call'[p].resultsAgg[Len(call'[p].resultsAgg)].error
       /\ connection' = connection
    \/ /\ connection' # NoHandle
       /\ connection' # connection
       /\ call'[p].pc = "exec"
       /\ call'[p].h = connection'
       /\ call'[p].resultsAgg = call[p].resultsAgg

ReopenStep(p) ==
  /\ Closed(p) => connection = NoHandle
  /\ Closed(p) /\ QueryStarts(p) /\ call'[p].queries # <<>> => FreshResolution(call'[p])
  /\ ResolvingStep(p)
  /\ call'[p].op = "query" /\ call'[p].pc = "done" /\ call'[p].spawned # {} =>
       connection' # NoHandle
  /\ QueryStarts(p) /\ call'[p].queries = <<>> =>
       /\ call'[p].pc = "done"
       /\ call'[p].resultsAgg = <<>>
       /\ call'[p].spawned = {}
       /\ call'[p].h = NoHandle
       /\ connection' = connection

\* C26: implicit reopen after close. For one caller: once close has
\* returned there is no handle, and a query with a statement then starts a
\* resolution of its own; when that resolution and the rest of open
\* succeed, a new handle is stored and the statement runs with it, so a
\* query that ran a subprocess returns with the instance open; a query
\* whose script has no statement returns no result, opens no handle and
\* spawns no subprocess.
C26_ImplicitReopen == [][\A p \in ReopenCallers : ReopenStep(p)]_vars

\* a query called after close has returned all its results with the
\* instance open again
C26_Witness ==
  \E p \in ReopenCallers :
    /\ call[p].op = "query" /\ call[p].pc = "done"
    /\ Len(call[p].resultsAgg) = 3
    /\ ~call[p].resultsAgg[3].error
    /\ connection # NoHandle

\* a query without a statement called after close has returned, and there
\* is still no handle
C26_WitnessNoStatement ==
  \E p \in ReopenCallers :
    /\ call[p].op = "query" /\ call[p].pc = "done"
    /\ call[p].queries = <<>>
    /\ connection = NoHandle

(***************************************************************************)
(* Properties of the completion cache across close                         *)
(***************************************************************************)
\* p calls getStaticCompletions
CompletionsStarts(p) == Ready(p) /\ call'[p] # call[p] /\ call'[p].op = "completions"

\* the call of p that computed a mapping returns it
ComputationReturns(p) == ~BuiltMapping(p) /\ BuiltMapping(p)'

CacheStep(p) ==
  /\ completionsCache # NoMap => completionsCache' = completionsCache
  /\ completionsCache' # completionsCache =>
       ComputationReturns(p) /\ completionsCache' = call'[p].completions
  /\ call[p].op = "close" \/ call'[p].op = "close" =>
       completionsCache' = completionsCache
  /\ CompletionsStarts(p) /\ completionsCache # NoMap =>
       /\ call'[p].pc = "done"
       /\ call'[p].completions = completionsCache
       /\ call'[p].completions = firstCompleted
       /\ issued' = issued
       /\ connection' = connection

\* C27: close leaves the completion cache unchanged. For one caller and
\* every sequence of its calls: once a mapping is cached no step changes or
\* clears the cache, a step of close least of all; the cache is written
\* only by the call that computed the mapping; and a call of
\* getStaticCompletions made while a mapping is cached returns that
\* mapping, the first one computed, and issues no query.
C27_CloseKeepsCache == [][\A p \in CacheCallers : CacheStep(p)]_vars

\* a mapping with a function entry was computed through a handle, close has
\* removed the handle, and a later call has returned the cached mapping
C27_Witness ==
  \E p \in CacheCallers :
    /\ call[p].op = "completions" /\ call[p].stage = "hit" /\ call[p].pc = "done"
    /\ call[p].completions = completionsCache
    /\ AbsKey \in DOMAIN completionsCache.entries
    /\ connection = NoHandle
    /\ issued.keywords = 1

(***************************************************************************)
(* Properties of testConnection                                            *)
(***************************************************************************)
TestCallers == {p \in Callers : call[p].op = "test"}

\* C28: testConnection fails exactly when its own open fails. It rejects
\* only from its await of open, with the error of open and before any probe;
\* a call whose open returned has a handle; once it is in its probe it never
\* rejects, and it returns with the one result of the probe, error result
\* or not.
C28_TestConnectionFailsWithOpen ==
  \A p \in TestCallers :
    /\ call[p].threw <=> (call[p].pc = "done" /\ call[p].stage = "open")
    /\ call[p].threw =>
         call[p].err # <<>> /\ call[p].resultsAgg = <<>> /\ call[p].spawned = {}
    /\ call[p].pc = "open_return" => call[p].h # NoHandle
    /\ call[p].stage = "query" => call[p].err = <<>>
    /\ call[p].stage = "query" /\ call[p].pc = "done" => Len(call[p].resultsAgg) = 1

\* testConnection has returned without a rejection although its probe
\* ended in an error result
C28_Witness ==
  \E p \in TestCallers :
    /\ call[p].pc = "done" /\ call[p].stage = "query"
    /\ ~call[p].threw
    /\ call[p].resultsAgg[1].error
    /\ call[p].spawned = {1}

====
